---- MODULE Spec2Model ----
(***************************************************************************)
(* Model of the wave ledger importer (crate `wave`):                       *)
(*   - Account::validate, the debit/credit type inference of one account   *)
(*     block (import/parser/account.rs),                                   *)
(*   - the account block and ledger parsers at the level of rows and       *)
(*     cells, and the assembling of the IR (import/parser, import/mod.rs), *)
(*   - the reconciler, the sort and the per-date check (operations.rs).    *)
(* Decimals are modelled as integers (a fixed number of cents).            *)
(***************************************************************************)
EXTENDS Integers, Sequences, FiniteSets, TLC

VARIABLES
    account,       \* the parsed Account handed to Account::validate
    vresult,       \* what validate returned for `account`
    original,      \* the Account before one posting balance was changed
    oresult,       \* what validate returned for `original`
    vpc,           \* position of the validate scenario
    transactions,  \* Ledger.transactions of the ledger being processed
    ledger_name,   \* Ledger.ledger_name
    dates,         \* Ledger.dates
    input,         \* the transactions of the ledger before merging
    groups,        \* the HashMap group_by returned, while it is being drained
    result,        \* the `result`/collected Vec of merged transactions
    checkResult,   \* what check_transactions_are_balanced_per_date returned
    mpc,           \* position in the merge -> sort -> check pipeline
    document,      \* the input of load: the header row and the rows after it
    wave_ledger,   \* what load_wave_ledger returned
    account_balances, \* Ledger.account_balances
    lpc,           \* position in load
    text,          \* the characters handed to a cell-level parser
    cell_result,   \* what the cell-level parser returned
    cpc            \* which cell-level parser runs on `text`, and whether it ran

vars == <<account, vresult, original, oresult, vpc,
          transactions, ledger_name, dates, input, groups, result, checkResult, mpc,
          document, wave_ledger, account_balances, lpc,
          text, cell_result, cpc>>

validateVars == <<account, vresult, original, oresult, vpc>>
mergeVars == <<transactions, ledger_name, dates, input, groups, result, checkResult, mpc>>
loadVars == <<document, wave_ledger, account_balances, lpc>>
cellVars == <<text, cell_result, cpc>>

(***************************************************************************)
(* Bounds of the model.                                                    *)
(***************************************************************************)
MaxPostings == 2      \* posting rows per account block
MaxBalance == 2       \* a changed posting balance ranges over -MaxBalance..MaxBalance
MaxTransactions == 3  \* transactions of a ledger handed to the reconciler
MaxValidBlocks == 1   \* well-formed account blocks around the block under test
MaxNumberLen == 4     \* characters of the number of an amount cell
MaxCellLen == 5       \* characters of the input of the cell tokenizer

(***************************************************************************)
(* ir.rs: Amount, a figure in the account currency and in the ledger       *)
(* currency.                                                               *)
(***************************************************************************)
Amount(acc, led) == [in_account_currency |-> acc, in_ledger_currency |-> led]

AmountZero == Amount(0, 0)

AmountIsZero(a) == a.in_account_currency = 0 /\ a.in_ledger_currency = 0

AmountAdd(a, b) ==
    Amount(a.in_account_currency + b.in_account_currency,
           a.in_ledger_currency + b.in_ledger_currency)

AmountSub(a, b) ==
    Amount(a.in_account_currency - b.in_account_currency,
           a.in_ledger_currency - b.in_ledger_currency)

AmountNeg(a) == Amount(-a.in_account_currency, -a.in_ledger_currency)

(***************************************************************************)
(* account.rs: Account::validate.                                          *)
(***************************************************************************)
ValidateOk(type) == [ok |-> TRUE, account_type |-> type, err |-> ""]
ValidateErr(msg) == [ok |-> FALSE, account_type |-> "None", err |-> msg]

\* Mutant: the account type is Debit before the first posting.
ValidateStartAsDebit(acct) ==
    [account_type |-> "Debit", balance |-> acct.starting_balance,
     total_debit |-> AmountZero, total_credit |-> AmountZero, err |-> ""]

\* The locals of validate before the loop.
ValidateStart(acct) ==
    [account_type |-> "None", balance |-> acct.starting_balance,
     total_debit |-> AmountZero, total_credit |-> AmountZero, err |-> ""]

\* One posting accepted by the loop body: the balance moves to the posting's
\* balance and the totals accumulate.
Advance(st, posting, type) ==
    [st EXCEPT !.account_type = type,
               !.balance = posting.balance,
               !.total_debit = AmountAdd(st.total_debit, posting.debit),
               !.total_credit = AmountAdd(st.total_credit, posting.credit)]

\* Mutant: the balances are compared in the ledger currency only.
ValidatePostingLedgerFigureOnly(st, posting) ==
    IF posting.balance.in_ledger_currency
          = AmountSub(AmountAdd(st.balance, posting.debit),
                      posting.credit).in_ledger_currency
    THEN IF st.account_type = "Credit"
         THEN [st EXCEPT !.err = "Debit account balance mismatch"]
         ELSE Advance(st, posting, "Debit")
    ELSE IF posting.balance.in_ledger_currency
               = AmountAdd(AmountSub(st.balance, posting.debit),
                           posting.credit).in_ledger_currency
    THEN IF st.account_type = "Debit"
         THEN [st EXCEPT !.err = "Credit account balance mismatch"]
         ELSE Advance(st, posting, "Credit")
    ELSE [st EXCEPT !.err = "Posting balance mismatch"]

\* Mutant: the credit hypothesis is tried first.
ValidatePostingCreditFirst(st, posting) ==
    IF posting.balance = AmountAdd(AmountSub(st.balance, posting.debit), posting.credit)
    THEN IF st.account_type = "Debit"
         THEN [st EXCEPT !.err = "Credit account balance mismatch"]
         ELSE Advance(st, posting, "Credit")
    ELSE IF posting.balance = AmountSub(AmountAdd(st.balance, posting.debit), posting.credit)
    THEN IF st.account_type = "Credit"
         THEN [st EXCEPT !.err = "Debit account balance mismatch"]
         ELSE Advance(st, posting, "Debit")
    ELSE [st EXCEPT !.err = "Posting balance mismatch"]

\* Mutant: a posting that matches the other hypothesis switches the type.
ValidatePostingSwitchingType(st, posting) ==
    IF posting.balance = AmountSub(AmountAdd(st.balance, posting.debit), posting.credit)
    THEN Advance(st, posting, "Debit")
    ELSE IF posting.balance = AmountAdd(AmountSub(st.balance, posting.debit), posting.credit)
    THEN Advance(st, posting, "Credit")
    ELSE [st EXCEPT !.err = "Posting balance mismatch"]

\* The body of the loop over the postings.
ValidatePosting(st, posting) ==
    IF posting.balance = AmountSub(AmountAdd(st.balance, posting.debit), posting.credit)
    THEN IF st.account_type = "Credit"
         THEN [st EXCEPT !.err = "Debit account balance mismatch"]
         ELSE Advance(st, posting, "Debit")
    ELSE IF posting.balance = AmountAdd(AmountSub(st.balance, posting.debit), posting.credit)
    THEN IF st.account_type = "Debit"
         THEN [st EXCEPT !.err = "Credit account balance mismatch"]
         ELSE Advance(st, posting, "Credit")
    ELSE [st EXCEPT !.err = "Posting balance mismatch"]

\* The loop: stops at the first posting that returns an error.
RECURSIVE ValidateFold(_, _, _)
ValidateFold(acct, i, st) ==
    IF st.err # "" \/ i > Len(acct.postings)
    THEN st
    ELSE ValidateFold(acct, i + 1, ValidatePosting(st, acct.postings[i]))

\* Mutant: the ending balance is not compared with the folded balance.
ValidateTotalsNoEndingBalance(acct, st) ==
    IF st.total_debit # acct.ending_balance.total_debit
    THEN ValidateErr("Total debit mismatch")
    ELSE IF st.total_credit # acct.ending_balance.total_credit
    THEN ValidateErr("Total credit mismatch")
    ELSE IF AmountAdd(acct.starting_balance, acct.balance_change)
              # acct.ending_balance.ending_balance
    THEN ValidateErr("Balance change mismatch")
    ELSE ValidateOk(st.account_type)

\* Mutant: the balance change is not checked.
ValidateTotalsNoBalanceChange(acct, st) ==
    IF st.total_debit # acct.ending_balance.total_debit
    THEN ValidateErr("Total debit mismatch")
    ELSE IF st.total_credit # acct.ending_balance.total_credit
    THEN ValidateErr("Total credit mismatch")
    ELSE IF st.balance # acct.ending_balance.ending_balance
    THEN ValidateErr("Ending balance mismatch")
    ELSE ValidateOk(st.account_type)

\* The four checks after the loop.
ValidateTotals(acct, st) ==
    IF st.total_debit # acct.ending_balance.total_debit
    THEN ValidateErr("Total debit mismatch")
    ELSE IF st.total_credit # acct.ending_balance.total_credit
    THEN ValidateErr("Total credit mismatch")
    ELSE IF st.balance # acct.ending_balance.ending_balance
    THEN ValidateErr("Ending balance mismatch")
    ELSE IF AmountAdd(acct.starting_balance, acct.balance_change)
              # acct.ending_balance.ending_balance
    THEN ValidateErr("Balance change mismatch")
    ELSE ValidateOk(st.account_type)

Validate(acct) ==
    LET st == ValidateFold(acct, 1, ValidateStart(acct))
    IN  IF st.err # "" THEN ValidateErr(st.err) ELSE ValidateTotals(acct, st)

(***************************************************************************)
(* The account blocks the validate scenario starts from.  A block is built *)
(* row by row: every posting balance follows the debit rule, the credit    *)
(* rule, or is off by one, in the ledger-currency and in the               *)
(* account-currency figure (RulePairs); the totals, the ending balance and the balance *)
(* change are the true ones, or one figure of one of them is off by one.   *)
(* The account-currency debit and credit are rate times the ledger ones.   *)
(***************************************************************************)
Rates == {1, 2}
StartingBalances == {0, 1}
DebitCreditFigures == {0, 1}
EndingFaults ==
    {"none"} \cup
    ({"total_debit", "total_credit", "ending_balance", "balance_change"}
        \X {"in_account_currency", "in_ledger_currency"})

\* <<rule of the ledger-currency balance, rule of the account-currency balance>>
RulePairs ==
    {<<"debit", "debit">>, <<"credit", "credit">>, <<"debit", "credit">>,
     <<"credit", "debit">>, <<"off", "debit">>, <<"debit", "off">>}

PostingChoices ==
    {[debit |-> d, credit |-> c, led |-> r[1], acc |-> r[2]] :
        d \in DebitCreditFigures, c \in DebitCreditFigures, r \in RulePairs}

RuleBalance(rule, balance, debit, credit) ==
    CASE rule = "debit" -> balance + debit - credit
      [] rule = "credit" -> balance - debit + credit
      [] rule = "off" -> balance + debit - credit + 1

GenPosting(prev, rate, c) ==
    [date |-> 1, description |-> "x",
     debit |-> Amount(rate * c.debit, c.debit),
     credit |-> Amount(rate * c.credit, c.credit),
     balance |-> Amount(
        RuleBalance(c.acc, prev.in_account_currency, rate * c.debit, rate * c.credit),
        RuleBalance(c.led, prev.in_ledger_currency, c.debit, c.credit))]

RECURSIVE GenPostings(_, _, _, _)
GenPostings(prev, rate, choices, i) ==
    IF i > Len(choices)
    THEN <<>>
    ELSE LET p == GenPosting(prev, rate, choices[i])
         IN  <<p>> \o GenPostings(p.balance, rate, choices, i + 1)

RECURSIVE SumDebit(_)
SumDebit(postings) ==
    IF postings = <<>> THEN AmountZero
    ELSE AmountAdd(Head(postings).debit, SumDebit(Tail(postings)))

RECURSIVE SumCredit(_)
SumCredit(postings) ==
    IF postings = <<>> THEN AmountZero
    ELSE AmountAdd(Head(postings).credit, SumCredit(Tail(postings)))

LastBalance(acct) ==
    IF acct.postings = <<>> THEN acct.starting_balance
    ELSE acct.postings[Len(acct.postings)].balance

PreviousBalance(acct, i) ==
    IF i = 1 THEN acct.starting_balance ELSE acct.postings[i - 1].balance

OffByOne(a, fault, field) ==
    IF fault # "none" /\ fault[1] = field
    THEN [a EXCEPT ![fault[2]] = @ + 1]
    ELSE a

GenAccount(start, rate, choices, fault) ==
    LET sb == Amount(rate * start, start)
        ps == GenPostings(sb, rate, choices, 1)
        eb == IF ps = <<>> THEN sb ELSE ps[Len(ps)].balance
    IN  [name |-> "A",
         account_currency |-> IF rate = 1 THEN "USD" ELSE "EUR",
         starting_balance |-> sb,
         postings |-> ps,
         ending_balance |->
            [total_debit |-> OffByOne(SumDebit(ps), fault, "total_debit"),
             total_credit |-> OffByOne(SumCredit(ps), fault, "total_credit"),
             ending_balance |-> OffByOne(eb, fault, "ending_balance")],
         balance_change |-> OffByOne(AmountSub(eb, sb), fault, "balance_change")]

NoAccount == [name |-> ""]
NoResult == [ok |-> FALSE, account_type |-> "None", err |-> "not run"]

ChangedBalances ==
    {Amount(a, l) : a \in -MaxBalance..MaxBalance, l \in -MaxBalance..MaxBalance}

(***************************************************************************)
(* The validate scenario: an account block is validated; an accepted block *)
(* gets the balance of one posting changed and is validated again.         *)
(***************************************************************************)
NoCheck == [at |-> "none", res |-> "none"]

NoDocument == [header_row |-> <<>>, rows |-> <<>>, defect |-> "none"]
NoLedger ==
    [ok |-> FALSE, column_schema |-> "none", accounts |-> <<>>,
     ledger_name |-> "", start_date |-> 0, end_date |-> 0]

NoDates == [start_date |-> 0, end_date |-> 0]

NoCellResult == [ok |-> FALSE, err |-> "not run"]

CellIdle ==
    /\ text = <<>>
    /\ cell_result = NoCellResult
    /\ cpc = "idle"

LoadIdle ==
    /\ document = NoDocument
    /\ wave_ledger = NoLedger
    /\ account_balances = <<>>
    /\ lpc = "idle"

MergeIdle ==
    /\ transactions = <<>>
    /\ ledger_name = ""
    /\ dates = NoDates
    /\ input = <<>>
    /\ groups = <<>>
    /\ result = <<>>
    /\ checkResult = NoCheck
    /\ mpc = "idle"

InitValidate ==
    /\ \E n \in 0..MaxPostings :
         \E choices \in [1..n -> PostingChoices] :
           \E start \in StartingBalances, rate \in Rates, fault \in EndingFaults :
              account = GenAccount(start, rate, choices, fault)
    /\ vresult = NoResult
    /\ original = NoAccount
    /\ oresult = NoResult
    /\ vpc = "parsed"
    /\ MergeIdle
    /\ LoadIdle
    /\ CellIdle

\* account.validate() as account() calls it on the block it parsed.
CallValidate ==
    /\ vpc \in {"parsed", "changed"}
    /\ vresult' = Validate(account)
    /\ vpc' = IF vpc = "parsed" THEN "validated" ELSE "revalidated"
    /\ UNCHANGED <<account, original, oresult>>
    /\ UNCHANGED mergeVars
    /\ UNCHANGED loadVars
    /\ UNCHANGED cellVars

\* The balance of one posting of an accepted block is changed to another value.
ChangeBalance ==
    /\ vpc = "validated"
    /\ vresult.ok
    /\ \E i \in 1..Len(account.postings) :
         \E v \in ChangedBalances :
            /\ v # account.postings[i].balance
            /\ account' = [account EXCEPT !.postings[i].balance = v]
    /\ original' = account
    /\ oresult' = vresult
    /\ vpc' = "changed"
    /\ UNCHANGED vresult
    /\ UNCHANGED mergeVars
    /\ UNCHANGED loadVars
    /\ UNCHANGED cellVars

NextValidate == CallValidate \/ ChangeBalance

SpecValidate == InitValidate /\ [][NextValidate]_vars

(***************************************************************************)
(* Claims about Account::validate.                                         *)
(***************************************************************************)
Validated == vpc \in {"validated", "revalidated"}

FollowsDebitRule(acct) ==
    \A i \in 1..Len(acct.postings) :
        acct.postings[i].balance =
            AmountSub(AmountAdd(PreviousBalance(acct, i), acct.postings[i].debit),
                      acct.postings[i].credit)

FollowsCreditRule(acct) ==
    \A i \in 1..Len(acct.postings) :
        acct.postings[i].balance =
            AmountAdd(AmountSub(PreviousBalance(acct, i), acct.postings[i].debit),
                      acct.postings[i].credit)

TrueTotals(acct) ==
    /\ acct.ending_balance.total_debit = SumDebit(acct.postings)
    /\ acct.ending_balance.total_credit = SumCredit(acct.postings)
    /\ acct.ending_balance.ending_balance = LastBalance(acct)
    /\ acct.balance_change = AmountSub(LastBalance(acct), acct.starting_balance)

ChangedIndex == CHOOSE i \in 1..Len(account.postings) : account.postings[i] # original.postings[i]

NetAmount(posting) == AmountSub(posting.debit, posting.credit)

\* C1 as stated: an accepted block with the balance of one posting changed to a
\* different value is always rejected by validate.
C1_AsStated == vpc = "revalidated" => ~vresult.ok

\* C1, amended: an accepted block with the balance of one posting changed to a
\* different value is rejected by validate, except when the block has exactly two
\* postings, the changed balance is the first one and is now the candidate of the
\* other hypothesis, and the net amounts (debit - credit) of the two postings
\* cancel; then validate accepts the changed block with the opposite type.  It
\* never accepts a changed block with the same type.
C1_ChangedBalance ==
    (vpc = "revalidated" /\ vresult.ok) =>
        /\ Len(account.postings) = 2
        /\ ChangedIndex = 1
        /\ oresult.account_type \in {"Debit", "Credit"}
        /\ vresult.account_type \in {"Debit", "Credit"}
        /\ vresult.account_type # oresult.account_type
        /\ account.postings[1].balance =
              IF oresult.account_type = "Debit"
              THEN AmountAdd(AmountSub(account.starting_balance, account.postings[1].debit),
                             account.postings[1].credit)
              ELSE AmountSub(AmountAdd(account.starting_balance, account.postings[1].debit),
                             account.postings[1].credit)
        /\ NetAmount(account.postings[1]) = AmountNeg(NetAmount(account.postings[2]))
        /\ NetAmount(account.postings[1]) # AmountZero

\* The balance of the last of two postings of an accepted EUR block was changed
\* and validate rejected the block.
C1_Witness ==
    /\ vpc = "revalidated"
    /\ ~vresult.ok
    /\ oresult.ok
    /\ Len(account.postings) = 2
    /\ ChangedIndex = 2
    /\ account.account_currency = "EUR"

C10_OkOnlyIfChecksHold ==
    (Validated /\ vresult.ok) =>
        /\ SumDebit(account.postings) = account.ending_balance.total_debit
        /\ SumCredit(account.postings) = account.ending_balance.total_credit
        /\ LastBalance(account) = account.ending_balance.ending_balance
        /\ AmountAdd(account.starting_balance, account.balance_change)
              = account.ending_balance.ending_balance

\* A two-posting EUR block with a non-zero balance change was accepted.
C10_Witness ==
    /\ vpc = "validated"
    /\ vresult.ok
    /\ Len(account.postings) = 2
    /\ account.account_currency = "EUR"
    /\ account.balance_change # AmountZero
    /\ account.ending_balance.total_debit # AmountZero

(***************************************************************************)
(* operations.rs: group_by, the reconciler, the sort and the per-date      *)
(* check.  A HashMap is a function; the order in which a HashMap is        *)
(* iterated is not fixed by the code and is a choice of the caller here.   *)
(***************************************************************************)
Restrict(f, S) == [k \in S |-> f[k]]

\* The orders in which the keys S of a HashMap can be visited.
IterationOrders(S) ==
    {p \in [1..Cardinality(S) -> S] : \A i, j \in 1..Cardinality(S) : p[i] = p[j] => i = j}

\* keys().next(): the first key, in iteration order, that is still in the map.
FirstKey(order, keys) ==
    order[CHOOSE i \in 1..Len(order) :
            order[i] \in keys /\ \A j \in 1..(i - 1) : order[j] \notin keys]

\* The two key functions group_by is called with.
KeyOf(kind, transaction) ==
    IF kind = "date"
    THEN transaction.date
    ELSE <<transaction.date, transaction.description>>

RECURSIVE GroupByFold(_, _, _, _)
GroupByFold(items, i, kind, grouped) ==
    IF i > Len(items)
    THEN grouped
    ELSE LET key == KeyOf(kind, items[i])
         IN  GroupByFold(items, i + 1, kind,
                IF key \in DOMAIN grouped
                THEN [grouped EXCEPT ![key] = @ \o items[i].postings]
                ELSE grouped @@ (key :> items[i].postings))

GroupBy(items, kind) == GroupByFold(items, 1, kind, <<>>)

\* The first loop of transactions_from_postings.
RECURSIVE PostingsByAmount(_, _, _)
PostingsByAmount(postings, i, byAmount) ==
    IF i > Len(postings)
    THEN byAmount
    ELSE LET key == postings[i].amount.in_ledger_currency
         IN  PostingsByAmount(postings, i + 1,
                IF key \in DOMAIN byAmount
                THEN [byAmount EXCEPT ![key] = Append(@, postings[i])]
                ELSE byAmount @@ (key :> <<postings[i]>>))

\* Mutant: the opposite bucket is looked up under the amount itself.
NegativeKeyNotNegated(amount) == amount

\* The key of the bucket that is removed as negative_postings.
NegativeKey(amount) == -amount

\* Mutant: the first postings of two non-empty buckets are paired.
IsPairNonEmpty(positive_postings, negative_postings) ==
    Len(positive_postings) >= 1 /\ Len(negative_postings) >= 1

\* Mutant: the bucket that is visited first decides alone.
IsPairOfFirstBucket(positive_postings, negative_postings) ==
    Len(positive_postings) = 1 /\ Len(negative_postings) >= 1

\* The condition under which two buckets become one transaction.
IsPair(positive_postings, negative_postings) ==
    Len(positive_postings) = 1 /\ Len(negative_postings) = 1

\* Mutant: of the postings that are not paired only the first one is kept.
SingleTransactionsOfFirst(date, description, postings) ==
    [i \in 1..(IF postings = <<>> THEN 0 ELSE 1) |->
        [date |-> date, description |-> description, postings |-> <<postings[i]>>]]

\* The postings of buckets that are not paired: one transaction each.
SingleTransactions(date, description, postings) ==
    [i \in 1..Len(postings) |->
        [date |-> date, description |-> description, postings |-> <<postings[i]>>]]

\* The while loop of transactions_from_postings.
RECURSIVE PairingLoop(_, _, _, _, _)
PairingLoop(date, description, byAmount, order, res) ==
    IF DOMAIN byAmount = {}
    THEN res
    ELSE LET amount == FirstKey(order, DOMAIN byAmount)
             positive_postings == byAmount[amount]
             removed == Restrict(byAmount, DOMAIN byAmount \ {amount})
             negative_postings ==
                IF NegativeKey(amount) \in DOMAIN removed
                THEN removed[NegativeKey(amount)]
                ELSE <<>>
             rest == Restrict(removed, DOMAIN removed \ {NegativeKey(amount)})
         IN  IF IsPair(positive_postings, negative_postings)
             THEN PairingLoop(date, description, rest, order,
                    Append(res, [date |-> date, description |-> description,
                                 postings |-> <<positive_postings[1], negative_postings[1]>>]))
             ELSE PairingLoop(date, description, rest, order,
                    res \o SingleTransactions(date, description,
                                              positive_postings \o negative_postings))

\* Mutant: of the postings of a group only the first one is kept.
TransactionsFromPostingsFirstOnly(date, description, postings, order) ==
    SingleTransactions(date, description, <<postings[1]>>)

\* transactions_from_postings
TransactionsFromPostings(date, description, postings, order) ==
    PairingLoop(date, description, PostingsByAmount(postings, 1, <<>>), order, <<>>)

BucketKeys(postings) == {postings[i].amount.in_ledger_currency : i \in 1..Len(postings)}

\* Mutant: a transaction goes before those already placed that have its date.
RECURSIVE SortByDateFoldTiesReversed(_, _, _)
SortByDateFoldTiesReversed(items, i, sorted) ==
    IF i > Len(items)
    THEN sorted
    ELSE LET n == Cardinality({j \in 1..Len(sorted) : sorted[j].date < items[i].date})
         IN  SortByDateFoldTiesReversed(items, i + 1,
                SubSeq(sorted, 1, n) \o <<items[i]>> \o SubSeq(sorted, n + 1, Len(sorted)))

\* sort_by_key is a stable sort: a transaction goes behind those already placed
\* whose date is not later.
RECURSIVE SortByDateFold(_, _, _)
SortByDateFold(items, i, sorted) ==
    IF i > Len(items)
    THEN sorted
    ELSE LET n == Cardinality({j \in 1..Len(sorted) : sorted[j].date <= items[i].date})
         IN  SortByDateFold(items, i + 1,
                SubSeq(sorted, 1, n) \o <<items[i]>> \o SubSeq(sorted, n + 1, Len(sorted)))

SortTransactionsByDate(items) == SortByDateFold(items, 1, <<>>)

\* Mutant: the account-currency figures are summed.
RECURSIVE SumOfPostingsInAccountCurrency(_)
SumOfPostingsInAccountCurrency(postings) ==
    IF postings = <<>> THEN 0
    ELSE postings[1].amount.in_account_currency
            + SumOfPostingsInAccountCurrency(Tail(postings))

\* postings.iter().map(|posting| posting.amount.in_ledger_currency).sum()
RECURSIVE SumOfPostings(_)
SumOfPostings(postings) ==
    IF postings = <<>> THEN 0
    ELSE postings[1].amount.in_ledger_currency + SumOfPostings(Tail(postings))

CheckTransactionsAreBalancedPerDate(items) ==
    LET postings_by_date == GroupBy(items, "date")
    IN  IF \E date \in DOMAIN postings_by_date : SumOfPostings(postings_by_date[date]) # 0
        THEN "Err"
        ELSE "Ok"

(***************************************************************************)
(* The ledgers the reconciler scenario starts from: single-posting         *)
(* transactions, as to_ir builds them.  Account A is a USD account,        *)
(* account B a EUR account whose figures are twice the ledger figures.     *)
(***************************************************************************)
GroupKeys == {<<1, "x">>, <<1, "y">>, <<2, "x">>}
Dates == {k[1] : k \in GroupKeys}
AccountNames == {"A", "B"}
LedgerAmounts == {-1, 0, 1}

AccountRate(name) == IF name = "A" THEN 1 ELSE 2

IrPosting(name, led) ==
    [account_name |-> name, amount |-> Amount(AccountRate(name) * led, led)]

\* <<account, ledger amount>> of the postings of the input ledgers; a posting of
\* amount zero occurs in the group <<1, "x">> only.
InputPostings == {<<"A", 1>>, <<"B", -1>>, <<"A", -1>>}

InputTransactions ==
    {[date |-> k[1], description |-> k[2], postings |-> <<IrPosting(p[1], p[2])>>] :
        k \in GroupKeys, p \in InputPostings}
    \cup {[date |-> 1, description |-> "x", postings |-> <<IrPosting("B", 0)>>]}

ValidateIdle ==
    /\ account = NoAccount
    /\ vresult = NoResult
    /\ original = NoAccount
    /\ oresult = NoResult
    /\ vpc = "idle"

\* ledger_name, dates and account_balances of the input ledgers.
LedgerHeads ==
    {[ledger_name |-> "Personal", dates |-> [start_date |-> 1, end_date |-> 2],
      account_balances |-> <<>>],
     [ledger_name |-> "Business", dates |-> [start_date |-> 2, end_date |-> 2],
      account_balances |->
         [k \in AccountNames |->
             [start_balance |-> AmountZero,
              end_balance |-> Amount(AccountRate(k), 1)]]]}

\* The transactions of these ledgers: two descriptions on the first date,
\* one on the second, an amount and its opposite.
LedgerTransactions ==
    {[date |-> k[1], description |-> k[2], postings |-> <<IrPosting(p[1], p[2])>>] :
        k \in GroupKeys, p \in {<<"A", 1>>, <<"B", -1>>}}

InitMerge ==
    /\ \E n \in 0..MaxTransactions :
         \E txs \in [1..n -> InputTransactions] : transactions = txs
    /\ ledger_name = "Personal"
    /\ dates = [start_date |-> 1, end_date |-> 2]
    /\ input = transactions
    /\ groups = <<>>
    /\ result = <<>>
    /\ checkResult = NoCheck
    /\ mpc = "loaded"
    /\ ValidateIdle
    /\ LoadIdle
    /\ CellIdle

\* Ledgers that differ in ledger_name, dates and account_balances go through
\* the reconciler, the sort and the check.
InitLedger ==
    /\ \E n \in 0..MaxTransactions :
         \E txs \in [1..n -> LedgerTransactions] : transactions = txs
    /\ \E head \in LedgerHeads :
          /\ ledger_name = head.ledger_name
          /\ dates = head.dates
          /\ account_balances = head.account_balances
    /\ input = transactions
    /\ groups = <<>>
    /\ result = <<>>
    /\ checkResult = NoCheck
    /\ mpc = "loaded"
    /\ ValidateIdle
    /\ document = NoDocument
    /\ wave_ledger = NoLedger
    /\ lpc = "idle"
    /\ CellIdle

\* merge_transactions_with_same_date_description_and_amount: the group_by call.
MergeGroupBy ==
    /\ mpc = "loaded"
    /\ groups' = GroupBy(transactions, "date_description")
    /\ result' = <<>>
    /\ mpc' = "merging"
    /\ UNCHANGED <<transactions, ledger_name, dates, input, checkResult>>
    /\ UNCHANGED validateVars
    /\ UNCHANGED loadVars
    /\ UNCHANGED cellVars

\* flat_map: the next (date, description) group the HashMap yields goes through
\* transactions_from_postings, which visits the amount buckets in HashMap order.
MergeGroup ==
    /\ mpc = "merging"
    /\ \E key \in DOMAIN groups :
         \E order \in IterationOrders(BucketKeys(groups[key])) :
            /\ result' = result \o TransactionsFromPostings(key[1], key[2], groups[key], order)
            /\ groups' = Restrict(groups, DOMAIN groups \ {key})
    /\ UNCHANGED <<transactions, ledger_name, dates, input, checkResult, mpc>>
    /\ UNCHANGED validateVars
    /\ UNCHANGED loadVars
    /\ UNCHANGED cellVars

\* collect(): the merged transactions become the ledger's transactions.
MergeCollect ==
    /\ mpc = "merging"
    /\ DOMAIN groups = {}
    /\ ledger_name' = ledger_name
    /\ dates' = dates
    /\ transactions' = result
    /\ mpc' = "merged"
    /\ UNCHANGED <<input, groups, result, checkResult>>
    /\ UNCHANGED validateVars
    /\ UNCHANGED loadVars
    /\ UNCHANGED cellVars

\* sort_transactions_by_date
Sort ==
    /\ mpc = "merged"
    /\ transactions' = SortTransactionsByDate(transactions)
    /\ mpc' = "sorted"
    /\ UNCHANGED <<ledger_name, dates, input, groups, result, checkResult>>
    /\ UNCHANGED validateVars
    /\ UNCHANGED loadVars
    /\ UNCHANGED cellVars

\* check_transactions_are_balanced_per_date, on the ledger as loaded, as merged
\* or as sorted (main calls it on the sorted ledger).
Check ==
    /\ mpc \in {"loaded", "merged", "sorted"}
    /\ checkResult' = [at |-> mpc, res |-> CheckTransactionsAreBalancedPerDate(transactions)]
    /\ mpc' = "checked"
    /\ UNCHANGED <<transactions, ledger_name, dates, input, groups, result>>
    /\ UNCHANGED validateVars
    /\ UNCHANGED loadVars
    /\ UNCHANGED cellVars

NextMerge == MergeGroupBy \/ MergeGroup \/ MergeCollect \/ Sort \/ Check

SpecMerge == InitMerge /\ [][NextMerge]_vars

SpecLedger == InitLedger /\ [][NextMerge]_vars

(***************************************************************************)
(* Claims about the reconciler and the per-date check.                     *)
(***************************************************************************)
\* The ledger has been through the reconciler.
Merged ==
    \/ mpc \in {"merged", "sorted"}
    \/ mpc = "checked" /\ checkResult.at \in {"merged", "sorted"}

\* <<i, j>>: posting j of transaction i.
Positions(txs) ==
    UNION {{<<i, j>> : j \in 1..Len(txs[i].postings)} : i \in 1..Len(txs)}

PostingAt(txs, pos) == txs[pos[1]].postings[pos[2]]

\* The postings of the (date, description) group `key` with ledger amount a.
Bucket(txs, key, a) ==
    {pos \in Positions(txs) :
        /\ txs[pos[1]].date = key[1]
        /\ txs[pos[1]].description = key[2]
        /\ PostingAt(txs, pos).amount.in_ledger_currency = a}

TransactionsOfGroup(txs, key) ==
    {i \in 1..Len(txs) : txs[i].date = key[1] /\ txs[i].description = key[2]}

\* C3: in a (date, description) group with exactly one posting of a non-zero
\* amount a and exactly one of -a, the reconciler outputs exactly one transaction
\* made of these two postings, and neither is in any other output transaction.
C3_Pairing ==
    Merged =>
        \A key \in GroupKeys : \A a \in LedgerAmounts \ {0} :
            (Cardinality(Bucket(input, key, a)) = 1
                /\ Cardinality(Bucket(input, key, -a)) = 1) =>
            LET p == PostingAt(input, CHOOSE pos \in Bucket(input, key, a) : TRUE)
                q == PostingAt(input, CHOOSE pos \in Bucket(input, key, -a) : TRUE)
            IN  /\ Cardinality({i \in TransactionsOfGroup(transactions, key) :
                        transactions[i].postings \in {<<p, q>>, <<q, p>>}}) = 1
                /\ Cardinality(Bucket(transactions, key, a)) = 1
                /\ Cardinality(Bucket(transactions, key, -a)) = 1

\* A ledger of three transactions was merged; one group held +1, -1 and 0.
C3_Witness ==
    /\ mpc = "merged"
    /\ Len(input) = 3
    /\ \E key \in GroupKeys :
          /\ Cardinality(Bucket(input, key, 1)) = 1
          /\ Cardinality(Bucket(input, key, -1)) = 1
          /\ Cardinality(Bucket(input, key, 0)) = 1
          /\ \E i \in 1..Len(transactions) : Len(transactions[i].postings) = 2

\* C4: in a (date, description) group, when the bucket of a or the bucket of -a
\* holds more than one posting, or the bucket opposite to a posting is empty,
\* every posting of the two buckets is output as its own single-posting
\* transaction and none of them is in a transaction of two postings.
C4_AmbiguousNotMerged ==
    Merged =>
        \A key \in GroupKeys : \A a \in LedgerAmounts :
            LET same == Bucket(input, key, a)
                opposite == Bucket(input, key, -a)
            IN  (same # {} /\ (Cardinality(same) > 1 \/ Cardinality(opposite) > 1
                                \/ opposite = {})) =>
                /\ \A pos \in Bucket(transactions, key, a) :
                      Len(transactions[pos[1]].postings) = 1
                /\ \A n \in AccountNames :
                      Cardinality({pos \in Bucket(transactions, key, a) :
                                      PostingAt(transactions, pos) = IrPosting(n, a)})
                      = Cardinality({pos \in same : PostingAt(input, pos) = IrPosting(n, a)})

\* A group with amounts +1, -1, -1 was merged.
C4_Witness ==
    /\ mpc = "merged"
    /\ \E key \in GroupKeys :
          /\ Cardinality(Bucket(input, key, 1)) = 1
          /\ Cardinality(Bucket(input, key, -1)) = 2
    /\ Len(transactions) = 3

RECURSIVE LedgerFigureSum(_, _)
LedgerFigureSum(txs, S) ==
    IF S = {} THEN 0
    ELSE LET pos == CHOOSE x \in S : TRUE
         IN  PostingAt(txs, pos).amount.in_ledger_currency + LedgerFigureSum(txs, S \ {pos})

DateSum(txs, date) ==
    LedgerFigureSum(txs, {pos \in Positions(txs) : txs[pos[1]].date = date})

\* C5: check_transactions_are_balanced_per_date returns Ok if and only if, for
\* every date, the ledger-currency amounts of all postings of all transactions
\* of that date sum to zero; otherwise it returns an error.
C5_BalancedPerDate ==
    mpc = "checked" =>
        /\ checkResult.res \in {"Ok", "Err"}
        /\ checkResult.res = "Ok" <=> \A date \in Dates : DateSum(transactions, date) = 0

\* The check accepted a merged and sorted ledger with a transaction of a USD and
\* a EUR posting and postings on two dates.
C5_Witness ==
    /\ mpc = "checked"
    /\ checkResult = [at |-> "sorted", res |-> "Ok"]
    /\ \E i \in 1..Len(transactions) :
          /\ Len(transactions[i].postings) = 2
          /\ transactions[i].postings[1].account_name
                # transactions[i].postings[2].account_name
    /\ \E i, j \in 1..Len(transactions) : transactions[i].date # transactions[j].date

(***************************************************************************)
(* import/parser: the document as rows of cells.  A cell is empty, a text, *)
(* an amount (currency symbol and number) or a date; the characters inside *)
(* a cell are the business of the cell parsers (utils) and are not part of *)
(* this level.  A row parser consumes one row and fails on any other row.  *)
(***************************************************************************)
LEDGER_CURRENCY == "USD"
LEDGER_CURRENCY_SYMBOL == "$"

EmptyCell == [t |-> "empty", s |-> "", n |-> 0]
TextCell(s) == [t |-> "text", s |-> s, n |-> 0]
AmountCell(symbol, n) == [t |-> "amount", s |-> symbol, n |-> n]
DateCell(d) == [t |-> "date", s |-> "", n |-> d]

\* empty_cell(), i.e. cell_tag("")
IsEmptyCell(c) == c.t = "empty"
\* cell_tag(expected)
IsCellTag(c, expected) == c.t = "text" /\ c.s = expected
\* amount_cell()
IsAmountCell(c) == c.t = "amount"
\* amount_cell_opt()
IsAmountCellOpt(c) == c.t \in {"amount", "empty"}
\* date_cell()
IsDateCell(c) == c.t = "date"
\* any_cell(): the content of the cell
CellText(c) == c.s

\* amount_cell_opt(): None is the number 0 with no symbol
AmountOrZero(c) == IF c.t = "amount" THEN c.n ELSE 0

AllEmpty(row, from, to) == \A i \in from..to : IsEmptyCell(row[i])

RowFail(msg) == [ok |-> FALSE, err |-> msg]

CurrencySymbol(currency) ==
    CASE currency = "USD" -> "$"
      [] currency = "EUR" -> "€"
      [] OTHER -> "unexpected"

SchemaWidth(column_schema) ==
    IF column_schema = "GlobalLedgerCurrency" THEN 6 ELSE 12

\* Mutant: the account header row of either schema is taken.
AccountHeaderRowOfAnySchema(column_schema, row) ==
    IF /\ Len(row) \in {6, 12}
       /\ IsEmptyCell(row[1])
       /\ AllEmpty(row, 3, Len(row))
    THEN [ok |-> TRUE, err |-> "", name |-> CellText(row[2])]
    ELSE RowFail("account header row")

\* Mutant: the two figures of an amount are never compared.
SameCurrencyFiguresDifferIgnored(account_currency, in_account, in_ledger) == FALSE

\* account_currency == LEDGER_CURRENCY && the two figures differ: the test of
\* every PerAccountCurrency row parser on each of its amounts
SameCurrencyFiguresDiffer(account_currency, in_account_currency, in_ledger_currency) ==
    account_currency = LEDGER_CURRENCY /\ in_account_currency # in_ledger_currency

\* account_header_row
AccountHeaderRow(column_schema, row) ==
    IF /\ Len(row) = SchemaWidth(column_schema)
       /\ IsEmptyCell(row[1])
       /\ AllEmpty(row, 3, Len(row))
    THEN [ok |-> TRUE, err |-> "", name |-> CellText(row[2])]
    ELSE RowFail("account header row")

\* starting_balance_row
StartingBalanceRow(column_schema, row) ==
    IF ~(/\ Len(row) = SchemaWidth(column_schema)
         /\ IsCellTag(row[1], "Starting Balance")
         /\ AllEmpty(row, 2, 5)
         /\ IsAmountCell(row[6]))
    THEN RowFail("starting balance row")
    ELSE IF column_schema = "GlobalLedgerCurrency"
    THEN IF row[6].s # LEDGER_CURRENCY_SYMBOL
         THEN RowFail("Ledger currency symbol is not USD")
         ELSE [ok |-> TRUE, err |-> "",
               starting_balance |-> Amount(row[6].n, row[6].n),
               account_currency |-> LEDGER_CURRENCY]
    ELSE IF ~(AllEmpty(row, 8, 10) /\ IsAmountCell(row[11]))
    THEN RowFail("starting balance row")
    ELSE IF CellText(row[7]) # LEDGER_CURRENCY
    THEN RowFail("Ledger currency is not USD")
    ELSE IF row[6].s # LEDGER_CURRENCY_SYMBOL
    THEN RowFail("Ledger currency symbol is not USD")
    ELSE IF CurrencySymbol(CellText(row[12])) = "unexpected"
    THEN RowFail("Invalid account currency")
    ELSE IF row[11].s # CurrencySymbol(CellText(row[12]))
    THEN RowFail("Account currency symbol mismatch")
    ELSE IF SameCurrencyFiguresDiffer(CellText(row[12]), row[11].n, row[6].n)
    THEN RowFail("Account currency is ledger currency but amounts differ")
    ELSE [ok |-> TRUE, err |-> "",
          starting_balance |-> Amount(row[11].n, row[6].n),
          account_currency |-> CellText(row[12])]

\* posting_row: the columns common to both schemas, with their try_map
PostingCommonColumns(row) ==
    IF ~(/\ Len(row) >= 6
         /\ IsEmptyCell(row[1])
         /\ IsDateCell(row[2])
         /\ IsAmountCellOpt(row[4])
         /\ IsAmountCellOpt(row[5])
         /\ IsAmountCell(row[6]))
    THEN RowFail("posting row")
    ELSE IF IsAmountCell(row[4]) /\ row[4].s # LEDGER_CURRENCY_SYMBOL
    THEN RowFail("Debit currency symbol is not USD")
    ELSE IF IsAmountCell(row[5]) /\ row[5].s # LEDGER_CURRENCY_SYMBOL
    THEN RowFail("Credit currency symbol is not USD")
    ELSE IF row[6].s # LEDGER_CURRENCY_SYMBOL
    THEN RowFail("Balance currency symbol is not USD")
    ELSE [ok |-> TRUE, err |-> "",
          posting |->
            [date |-> row[2].n, description |-> CellText(row[3]),
             debit |-> Amount(AmountOrZero(row[4]), AmountOrZero(row[4])),
             credit |-> Amount(AmountOrZero(row[5]), AmountOrZero(row[5])),
             balance |-> Amount(row[6].n, row[6].n)]]

\* Mutant: the account currency code of a row is not compared with the one of
\* the starting-balance row.
AccountCurrencyMismatchIgnored(account_currency, expected_account_currency) == FALSE

\* account_currency != expected_account_currency
AccountCurrencyMismatch(account_currency, expected_account_currency) ==
    account_currency # expected_account_currency

\* posting_row: the try_map of the PerAccountCurrency columns
PostingAccountColumns(row, posting, expected_account_currency) ==
    LET account_currency == CellText(row[12])
        symbol == CurrencySymbol(account_currency)
        debit == AmountOrZero(row[9])
        credit == AmountOrZero(row[10])
    IN  IF CellText(row[7]) # LEDGER_CURRENCY
        THEN RowFail("Ledger currency is not USD")
        ELSE IF AccountCurrencyMismatch(account_currency, expected_account_currency)
        THEN RowFail("Expected account currency")
        ELSE IF symbol = "unexpected"
        THEN RowFail("Invalid account currency")
        ELSE IF IsAmountCell(row[9]) /\ row[9].s # symbol
        THEN RowFail("Expected debit currency symbol")
        ELSE IF IsAmountCell(row[10]) /\ row[10].s # symbol
        THEN RowFail("Expected credit currency symbol")
        ELSE IF row[11].s # symbol
        THEN RowFail("Expected balance currency symbol")
        ELSE IF IsAmountCell(row[9]) = IsAmountCell(row[10])
        THEN RowFail("Exactly one of debit and credit must be present")
        ELSE IF (debit = 0) # (posting.debit.in_ledger_currency = 0)
        THEN RowFail("Debit in account currency must be zero iff debit in ledger currency is zero")
        ELSE IF (credit = 0) # (posting.credit.in_ledger_currency = 0)
        THEN RowFail("Credit in account currency must be zero iff credit in ledger currency is zero")
        ELSE IF SameCurrencyFiguresDiffer(account_currency, debit,
                                          posting.debit.in_ledger_currency)
        THEN RowFail("Account currency is ledger currency but debit amounts differ")
        ELSE IF SameCurrencyFiguresDiffer(account_currency, credit,
                                          posting.credit.in_ledger_currency)
        THEN RowFail("Account currency is ledger currency but credit amounts differ")
        ELSE IF SameCurrencyFiguresDiffer(account_currency, row[11].n,
                                          posting.balance.in_ledger_currency)
        THEN RowFail("Account currency is ledger currency but balance amounts differ")
        ELSE [ok |-> TRUE, err |-> "",
              posting |->
                [date |-> posting.date, description |-> posting.description,
                 debit |-> Amount(debit, posting.debit.in_ledger_currency),
                 credit |-> Amount(credit, posting.credit.in_ledger_currency),
                 balance |-> Amount(row[11].n, posting.balance.in_ledger_currency)]]

\* posting_row: the columns of the schema after the common columns
PostingSchemaColumns(column_schema, expected_account_currency, row, common) ==
    IF ~common.ok
    THEN common
    ELSE IF Len(row) # SchemaWidth(column_schema)
    THEN RowFail("posting row")
    ELSE IF column_schema = "GlobalLedgerCurrency"
    THEN common
    ELSE IF ~(/\ IsEmptyCell(row[8])
              /\ IsAmountCellOpt(row[9])
              /\ IsAmountCellOpt(row[10])
              /\ IsAmountCell(row[11]))
    THEN RowFail("posting row")
    ELSE PostingAccountColumns(row, common.posting, expected_account_currency)

\* posting_row
PostingRow(column_schema, expected_account_currency, row) ==
    PostingSchemaColumns(column_schema, expected_account_currency, row,
                         PostingCommonColumns(row))

\* ending_balance_row
EndingBalanceRow(column_schema, expected_account_currency, row) ==
    IF ~(/\ Len(row) = SchemaWidth(column_schema)
         /\ IsCellTag(row[1], "Totals and Ending Balance")
         /\ AllEmpty(row, 2, 3)
         /\ IsAmountCell(row[4])
         /\ IsAmountCell(row[5])
         /\ IsAmountCell(row[6]))
    THEN RowFail("ending balance row")
    ELSE IF row[4].s # LEDGER_CURRENCY_SYMBOL
    THEN RowFail("Total debit currency symbol is not USD")
    ELSE IF row[5].s # LEDGER_CURRENCY_SYMBOL
    THEN RowFail("Total credit currency symbol is not USD")
    ELSE IF row[6].s # LEDGER_CURRENCY_SYMBOL
    THEN RowFail("Ending balance currency symbol is not USD")
    ELSE IF column_schema = "GlobalLedgerCurrency"
    THEN [ok |-> TRUE, err |-> "",
          ending_balance |->
            [total_debit |-> Amount(row[4].n, row[4].n),
             total_credit |-> Amount(row[5].n, row[5].n),
             ending_balance |-> Amount(row[6].n, row[6].n)]]
    ELSE IF ~(/\ IsEmptyCell(row[8])
              /\ IsAmountCell(row[9])
              /\ IsAmountCell(row[10])
              /\ IsAmountCell(row[11]))
    THEN RowFail("ending balance row")
    ELSE IF CellText(row[7]) # LEDGER_CURRENCY
    THEN RowFail("Ledger currency is not USD")
    ELSE IF AccountCurrencyMismatch(CellText(row[12]), expected_account_currency)
    THEN RowFail("Expected account currency")
    ELSE IF CurrencySymbol(CellText(row[12])) = "unexpected"
    THEN RowFail("Invalid account currency")
    ELSE IF \E i \in 9..11 : row[i].s # CurrencySymbol(CellText(row[12]))
    THEN RowFail("Expected currency symbol of the account")
    ELSE IF \E i \in 4..6 :
               SameCurrencyFiguresDiffer(CellText(row[12]), row[i + 5].n, row[i].n)
    THEN RowFail("Account currency is ledger currency but amounts differ")
    ELSE [ok |-> TRUE, err |-> "",
          ending_balance |->
            [total_debit |-> Amount(row[9].n, row[4].n),
             total_credit |-> Amount(row[10].n, row[5].n),
             ending_balance |-> Amount(row[11].n, row[6].n)]]

\* balance_change_row
BalanceChangeRow(column_schema, expected_account_currency, row) ==
    IF ~(/\ Len(row) = SchemaWidth(column_schema)
         /\ IsCellTag(row[1], "Balance Change")
         /\ AllEmpty(row, 2, 3)
         /\ IsAmountCell(row[4])
         /\ AllEmpty(row, 5, 6))
    THEN RowFail("balance change row")
    ELSE IF row[4].s # LEDGER_CURRENCY_SYMBOL
    THEN RowFail("Currency symbol is not $")
    ELSE IF column_schema = "GlobalLedgerCurrency"
    THEN [ok |-> TRUE, err |-> "", balance_change |-> Amount(row[4].n, row[4].n)]
    ELSE IF ~(/\ IsEmptyCell(row[8])
              /\ IsAmountCell(row[9])
              /\ AllEmpty(row, 10, 11))
    THEN RowFail("balance change row")
    ELSE IF CellText(row[7]) # LEDGER_CURRENCY
    THEN RowFail("Ledger currency is not USD")
    ELSE IF AccountCurrencyMismatch(CellText(row[12]), expected_account_currency)
    THEN RowFail("Expected account currency")
    ELSE IF CurrencySymbol(CellText(row[12])) = "unexpected"
    THEN RowFail("Invalid account currency")
    ELSE IF row[9].s # CurrencySymbol(CellText(row[12]))
    THEN RowFail("Expected balance change currency symbol")
    ELSE IF SameCurrencyFiguresDiffer(CellText(row[12]), row[9].n, row[4].n)
    THEN RowFail("Account currency is ledger currency but balance change amounts differ")
    ELSE [ok |-> TRUE, err |-> "", balance_change |-> Amount(row[9].n, row[4].n)]

(***************************************************************************)
(* import/parser: the account block, the header row and the ledger.        *)
(***************************************************************************)
\* The row at position i, or a row of no cells past the end of the input: no
\* row parser accepts it.
RowAt(rows, i) == IF i \in 1..Len(rows) THEN rows[i] ELSE <<>>

\* posting_row(..).repeated(): a row that parses is collected and the next
\* one tried; the first row that does not parse ends the list.
RECURSIVE PostingRows(_, _, _, _, _)
RepeatedStep(column_schema, expected_account_currency, rows, i, postings, parsed) ==
    IF parsed.ok
    THEN PostingRows(column_schema, expected_account_currency, rows, i + 1,
                     Append(postings, parsed.posting))
    ELSE [postings |-> postings, next |-> i]

PostingRows(column_schema, expected_account_currency, rows, i, postings) ==
    RepeatedStep(column_schema, expected_account_currency, rows, i, postings,
                 PostingRow(column_schema, expected_account_currency, RowAt(rows, i)))

AccountFail(msg) == [ok |-> FALSE, err |-> msg, next |-> 0]

\* account(): the try_map that builds the Account and validates it
AccountTryMap(parsed, next) ==
    IF Validate(parsed).ok
    THEN [ok |-> TRUE, err |-> "", next |-> next, account |-> parsed]
    ELSE AccountFail(Validate(parsed).err)

\* account(): the map over the rows of the block
AccountMap(name, starting_balance, repeated, ending_balance, balance_change) ==
    IF ~ending_balance.ok THEN AccountFail(ending_balance.err)
    ELSE IF ~balance_change.ok THEN AccountFail(balance_change.err)
    ELSE AccountTryMap([name |-> name,
                        account_currency |-> starting_balance.account_currency,
                        starting_balance |-> starting_balance.starting_balance,
                        postings |-> repeated.postings,
                        ending_balance |-> ending_balance.ending_balance,
                        balance_change |-> balance_change.balance_change],
                       repeated.next + 2)

\* Mutant: the ending balance row and the balance change row in either order.
AccountEndEitherOrder(column_schema, rows, name, starting_balance, repeated) ==
    IF EndingBalanceRow(column_schema, starting_balance.account_currency,
                        RowAt(rows, repeated.next)).ok
    THEN AccountMap(name, starting_balance, repeated,
                    EndingBalanceRow(column_schema, starting_balance.account_currency,
                                     RowAt(rows, repeated.next)),
                    BalanceChangeRow(column_schema, starting_balance.account_currency,
                                     RowAt(rows, repeated.next + 1)))
    ELSE AccountMap(name, starting_balance, repeated,
                    EndingBalanceRow(column_schema, starting_balance.account_currency,
                                     RowAt(rows, repeated.next + 1)),
                    BalanceChangeRow(column_schema, starting_balance.account_currency,
                                     RowAt(rows, repeated.next)))

\* account(): the ending balance row and the balance change row after the
\* posting rows
AccountEnd(column_schema, rows, name, starting_balance, repeated) ==
    AccountMap(name, starting_balance, repeated,
               EndingBalanceRow(column_schema, starting_balance.account_currency,
                                RowAt(rows, repeated.next)),
               BalanceChangeRow(column_schema, starting_balance.account_currency,
                                RowAt(rows, repeated.next + 1)))

\* account(): then_with, the rows that depend on the starting balance row
AccountThenWith(column_schema, rows, i, header_row, starting_balance) ==
    IF ~header_row.ok THEN AccountFail(header_row.err)
    ELSE IF ~starting_balance.ok THEN AccountFail(starting_balance.err)
    ELSE AccountEnd(column_schema, rows, header_row.name, starting_balance,
                    PostingRows(column_schema, starting_balance.account_currency,
                                rows, i + 2, <<>>))

\* account(): the block that starts at row i; `next` is the row after it.
ParseAccount(column_schema, rows, i) ==
    AccountThenWith(column_schema, rows, i,
                    AccountHeaderRow(column_schema, RowAt(rows, i)),
                    StartingBalanceRow(column_schema, RowAt(rows, i + 1)))

BusinessCurrencyColumns ==
    <<TextCell("ACCOUNT NUMBER"), TextCell("DATE"), TextCell("DESCRIPTION"),
      TextCell("DEBIT (In Business Currency)"),
      TextCell("CREDIT (In Business Currency)"),
      TextCell("BALANCE (In Business Currency)")>>

AccountCurrencyColumns ==
    <<TextCell("Business Currency"), EmptyCell,
      TextCell("DEBIT (In Account Currency)"),
      TextCell("CREDIT (In Account Currency)"),
      TextCell("BALANCE (In Account Currency)"),
      TextCell("Account Currency")>>

\* header_row: the column titles decide the schema.
HeaderRow(row) ==
    IF row = BusinessCurrencyColumns
    THEN [ok |-> TRUE, column_schema |-> "GlobalLedgerCurrency"]
    ELSE IF row = BusinessCurrencyColumns \o AccountCurrencyColumns
    THEN [ok |-> TRUE, column_schema |-> "PerAccountCurrency"]
    ELSE [ok |-> FALSE, column_schema |-> "none"]

\* row_with_empty_cell
RowWithEmptyCell(row) == Len(row) = 1 /\ IsEmptyCell(row[1])

\* separated_by: after an account, a separator row followed by an account that
\* parses continues the list; anything else ends it before the separator.
RECURSIVE SeparatedAccounts(_, _, _, _)
SeparatedStep(column_schema, rows, i, accounts, item) ==
    IF RowWithEmptyCell(RowAt(rows, i)) /\ item.ok
    THEN SeparatedAccounts(column_schema, rows, item.next,
                           Append(accounts, item.account))
    ELSE [accounts |-> accounts, next |-> i]

SeparatedAccounts(column_schema, rows, i, accounts) ==
    SeparatedStep(column_schema, rows, i, accounts,
                  ParseAccount(column_schema, rows, i + 1))

SeparatedFirst(column_schema, rows, first) ==
    IF first.ok
    THEN SeparatedAccounts(column_schema, rows, first.next, <<first.account>>)
    ELSE [accounts |-> <<>>, next |-> 1]

\* account(..).separated_by(row_with_empty_cell())
AccountList(column_schema, rows) ==
    SeparatedFirst(column_schema, rows, ParseAccount(column_schema, rows, 1))

\* header(): the lines above the column titles, the same in every document:
\* the ledger name and the two dates of the date range.
TitleLines == [ledger_name |-> "Personal", start_date |-> 1, end_date |-> 2]

\* Mutant: the ledger parser does not ask for the end of the input.
AtEndAnywhere(rows, i) == TRUE

\* end()
AtEnd(rows, i) == i = Len(rows) + 1

\* Mutant: any one row may follow the last account.
LedgerEndAnyRow(column_schema, rows, list) ==
    IF AtEnd(rows, IF list.next <= Len(rows) THEN list.next + 1 ELSE list.next)
    THEN [ok |-> TRUE, column_schema |-> column_schema, accounts |-> list.accounts,
          ledger_name |-> TitleLines.ledger_name,
          start_date |-> TitleLines.start_date, end_date |-> TitleLines.end_date]
    ELSE NoLedger

\* then_ignore(row_with_empty_cell().or_not()).then_ignore(end()).map(..)
LedgerEnd(column_schema, rows, list) ==
    IF AtEnd(rows, IF RowWithEmptyCell(RowAt(rows, list.next))
                   THEN list.next + 1 ELSE list.next)
    THEN [ok |-> TRUE, column_schema |-> column_schema, accounts |-> list.accounts,
          ledger_name |-> TitleLines.ledger_name,
          start_date |-> TitleLines.start_date, end_date |-> TitleLines.end_date]
    ELSE NoLedger

\* header().then_with(..)
LedgerThenWith(doc, header) ==
    IF ~header.ok THEN NoLedger
    ELSE LedgerEnd(header.column_schema, doc.rows,
                   AccountList(header.column_schema, doc.rows))

\* ledger(), as load_wave_ledger runs it on the whole input
ParseLedger(doc) == LedgerThenWith(doc, HeaderRow(doc.header_row))

(***************************************************************************)
(* import/mod.rs: to_ir.                                                   *)
(***************************************************************************)
\* Mutant: the credit is added to the debit.
PostingAmountDebitPlusCredit(posting) ==
    IF AmountIsZero(posting.debit) # AmountIsZero(posting.credit)
    THEN [ok |-> TRUE, amount |-> AmountAdd(posting.debit, posting.credit)]
    ELSE [ok |-> FALSE, amount |-> AmountZero]

\* Posting::amount
PostingAmount(posting) ==
    IF AmountIsZero(posting.debit) # AmountIsZero(posting.credit)
    THEN [ok |-> TRUE, amount |-> AmountSub(posting.debit, posting.credit)]
    ELSE [ok |-> FALSE, amount |-> AmountZero]

\* Account::account_type
AccountTypeOf(acct) == Validate(acct).account_type

\* Mutant: an account without a type always gets zero balances.
AccountBalanceOfTypelessAsZero(acct) ==
    CASE AccountTypeOf(acct) = "Debit" ->
            [ok |-> TRUE, start_balance |-> acct.starting_balance,
             end_balance |-> acct.ending_balance.ending_balance]
      [] AccountTypeOf(acct) = "Credit" ->
            [ok |-> TRUE, start_balance |-> AmountNeg(acct.starting_balance),
             end_balance |-> AmountNeg(acct.ending_balance.ending_balance)]
      [] OTHER ->
            [ok |-> TRUE, start_balance |-> AmountZero, end_balance |-> AmountZero]

\* to_ir: the balances of one account, or the failure to determine its type
AccountBalanceOf(acct) ==
    CASE AccountTypeOf(acct) = "Debit" ->
            [ok |-> TRUE, start_balance |-> acct.starting_balance,
             end_balance |-> acct.ending_balance.ending_balance]
      [] AccountTypeOf(acct) = "Credit" ->
            [ok |-> TRUE, start_balance |-> AmountNeg(acct.starting_balance),
             end_balance |-> AmountNeg(acct.ending_balance.ending_balance)]
      [] OTHER ->
            [ok |-> AmountIsZero(acct.starting_balance)
                    /\ AmountIsZero(acct.ending_balance.ending_balance),
             start_balance |-> AmountZero, end_balance |-> AmountZero]

\* collect() into the HashMap: a later account of the same name replaces an
\* earlier one.
RECURSIVE AccountBalances(_, _, _)
AccountBalances(accounts, i, balances) ==
    IF i > Len(accounts) THEN balances
    ELSE LET b == AccountBalanceOf(accounts[i])
             entry == [start_balance |-> b.start_balance, end_balance |-> b.end_balance]
             name == accounts[i].name
         IN  AccountBalances(accounts, i + 1,
                [k \in DOMAIN balances \cup {name} |->
                    IF k = name THEN entry ELSE balances[k]])

\* Mutant: the transactions of an account come out last posting first.
PostingTransactionsLastFirst(acct) ==
    [i \in 1..Len(acct.postings) |->
        [date |-> acct.postings[Len(acct.postings) + 1 - i].date,
         description |-> acct.postings[Len(acct.postings) + 1 - i].description,
         postings |-> <<[account_name |-> acct.name,
                         amount |-> PostingAmount(
                                       acct.postings[Len(acct.postings) + 1 - i]).amount]>>]]

\* the single-posting transactions of one account, in the order of its postings
PostingTransactions(acct) ==
    [i \in 1..Len(acct.postings) |->
        [date |-> acct.postings[i].date,
         description |-> acct.postings[i].description,
         postings |-> <<[account_name |-> acct.name,
                         amount |-> PostingAmount(acct.postings[i]).amount]>>]]

\* flat_map over the accounts
RECURSIVE FlatMapTransactions(_, _)
FlatMapTransactions(accounts, i) ==
    IF i > Len(accounts) THEN <<>>
    ELSE PostingTransactions(accounts[i]) \o FlatMapTransactions(accounts, i + 1)

\* to_ir
ToIrOf(ledger) ==
    LET accounts == ledger.accounts
    IN  IF \E i \in 1..Len(accounts) : ~AccountBalanceOf(accounts[i]).ok
        THEN [ok |-> FALSE, err |-> "Couldn't determine account type",
              ledger_name |-> "", dates |-> NoDates,
              transactions |-> <<>>, account_balances |-> <<>>]
        ELSE IF \E i \in 1..Len(accounts) : \E j \in 1..Len(accounts[i].postings) :
                   ~PostingAmount(accounts[i].postings[j]).ok
        THEN [ok |-> FALSE, err |-> "Exactly one of debit and credit must be zero",
              ledger_name |-> "", dates |-> NoDates,
              transactions |-> <<>>, account_balances |-> <<>>]
        ELSE [ok |-> TRUE, err |-> "",
              ledger_name |-> ledger.ledger_name,
              dates |-> [start_date |-> ledger.start_date,
                         end_date |-> ledger.end_date],
              transactions |-> FlatMapTransactions(accounts, 1),
              account_balances |-> AccountBalances(accounts, 1, <<>>)]

(***************************************************************************)
(* The documents handed to load.  A block is written from its figures by   *)
(* one balance rule; a listed defect is then applied to one of its rows.   *)
(* A EUR account shows twice the ledger figure in its account currency.    *)
(***************************************************************************)
Schemas == {"GlobalLedgerCurrency", "PerAccountCurrency"}

ColumnTitles(column_schema) ==
    IF column_schema = "GlobalLedgerCurrency"
    THEN BusinessCurrencyColumns
    ELSE BusinessCurrencyColumns \o AccountCurrencyColumns

Absent == [present |-> FALSE, n |-> 0]
Figure(n) == [present |-> TRUE, n |-> n]

RateOf(currency) == IF currency = "USD" THEN 1 ELSE 2

Columns(column_schema, cells) == SubSeq(cells, 1, SchemaWidth(column_schema))

LedgerSideCell(x) ==
    IF x.present THEN AmountCell(LEDGER_CURRENCY_SYMBOL, x.n) ELSE EmptyCell

\* The account-currency cell of a side: empty when the other side carries the
\* amount of the row.
AccountSideCell(currency, x, other) ==
    IF x.present /\ (x.n # 0 \/ ~(other.present /\ other.n # 0))
    THEN AmountCell(CurrencySymbol(currency), RateOf(currency) * x.n)
    ELSE EmptyCell

GenHeaderRow(column_schema, name) ==
    Columns(column_schema,
        <<EmptyCell, TextCell(name)>> \o [i \in 1..10 |-> EmptyCell])

GenStartingRow(column_schema, currency, start) ==
    Columns(column_schema,
        <<TextCell("Starting Balance"), EmptyCell, EmptyCell, EmptyCell, EmptyCell,
          AmountCell(LEDGER_CURRENCY_SYMBOL, start),
          TextCell(LEDGER_CURRENCY), EmptyCell, EmptyCell, EmptyCell,
          AmountCell(CurrencySymbol(currency), RateOf(currency) * start),
          TextCell(currency)>>)

GenPostingRow(column_schema, currency, r, balance) ==
    Columns(column_schema,
        <<EmptyCell, DateCell(r.date), TextCell(r.description),
          LedgerSideCell(r.debit), LedgerSideCell(r.credit),
          AmountCell(LEDGER_CURRENCY_SYMBOL, balance),
          TextCell(LEDGER_CURRENCY), EmptyCell,
          AccountSideCell(currency, r.debit, r.credit),
          AccountSideCell(currency, r.credit, r.debit),
          AmountCell(CurrencySymbol(currency), RateOf(currency) * balance),
          TextCell(currency)>>)

GenEndingRow(column_schema, currency, total_debit, total_credit, ending) ==
    Columns(column_schema,
        <<TextCell("Totals and Ending Balance"), EmptyCell, EmptyCell,
          AmountCell(LEDGER_CURRENCY_SYMBOL, total_debit),
          AmountCell(LEDGER_CURRENCY_SYMBOL, total_credit),
          AmountCell(LEDGER_CURRENCY_SYMBOL, ending),
          TextCell(LEDGER_CURRENCY), EmptyCell,
          AmountCell(CurrencySymbol(currency), RateOf(currency) * total_debit),
          AmountCell(CurrencySymbol(currency), RateOf(currency) * total_credit),
          AmountCell(CurrencySymbol(currency), RateOf(currency) * ending),
          TextCell(currency)>>)

GenChangeRow(column_schema, currency, change) ==
    Columns(column_schema,
        <<TextCell("Balance Change"), EmptyCell, EmptyCell,
          AmountCell(LEDGER_CURRENCY_SYMBOL, change), EmptyCell, EmptyCell,
          TextCell(LEDGER_CURRENCY), EmptyCell,
          AmountCell(CurrencySymbol(currency), RateOf(currency) * change),
          EmptyCell, EmptyCell, TextCell(currency)>>)

\* The running balance after the first i rows, by the rule of the block.
RECURSIVE RunningBalance(_, _, _, _)
RunningBalance(rule, start, rs, i) ==
    IF i = 0 THEN start
    ELSE LET net == rs[i].debit.n - rs[i].credit.n
         IN  RunningBalance(rule, start, rs, i - 1)
                + (IF rule = "debit" THEN net ELSE -net)

RECURSIVE SumSide(_, _, _)
SumSide(rs, side, i) ==
    IF i = 0 THEN 0
    ELSE SumSide(rs, side, i - 1) + (IF side = "debit" THEN rs[i].debit.n ELSE rs[i].credit.n)

GenBlock(column_schema, name, currency, rule, start, rs) ==
    LET ending == RunningBalance(rule, start, rs, Len(rs))
    IN  <<GenHeaderRow(column_schema, name),
          GenStartingRow(column_schema, currency, start)>>
        \o [i \in 1..Len(rs) |->
              GenPostingRow(column_schema, currency, rs[i],
                            RunningBalance(rule, start, rs, i))]
        \o <<GenEndingRow(column_schema, currency,
                          SumSide(rs, "debit", Len(rs)), SumSide(rs, "credit", Len(rs)),
                          ending),
             GenChangeRow(column_schema, currency, ending - start)>>

OtherCurrency(currency) == IF currency = "USD" THEN "EUR" ELSE "USD"

DropRow(block, r) == SubSeq(block, 1, r - 1) \o SubSeq(block, r + 1, Len(block))

NoFault == [kind |-> "none", row |-> 0]

FaultKinds ==
    {"ledger_currency", "account_currency", "symbol", "short_row", "drop_row", "figure"}

\* The defects that can be applied to a block of the given schema: the account
\* header row has no currency and no figure.  A row with the defect
\* "account_currency" is written in the other currency, code and symbols.
Faults(column_schema, block) ==
    {f \in [kind : FaultKinds, row : 1..Len(block)] :
        /\ f.kind \in {"ledger_currency", "account_currency"}
              => column_schema = "PerAccountCurrency" /\ f.row > 1
        /\ f.kind \in {"symbol", "figure"} => f.row > 1}

\* The first figure of a row: the balance, or the change of the last row.
FigureColumn(row) == IF IsAmountCell(row[6]) THEN 6 ELSE 4

ApplyFault(block, currency, f) ==
    CASE f.kind = "none" -> block
      [] f.kind = "ledger_currency" ->
            [block EXCEPT ![f.row][7] = TextCell("EUR")]
      [] f.kind = "account_currency" ->
            [block EXCEPT ![f.row] =
                [c \in 1..Len(@) |->
                    IF c = 12 THEN TextCell(OtherCurrency(currency))
                    ELSE IF c \in 9..11 /\ IsAmountCell(@[c])
                    THEN [@[c] EXCEPT !.s = CurrencySymbol(OtherCurrency(currency))]
                    ELSE @[c]]]
      [] f.kind = "symbol" ->
            [block EXCEPT ![f.row][FigureColumn(block[f.row])].s = "€"]
      [] f.kind = "short_row" ->
            [block EXCEPT ![f.row] = SubSeq(@, 1, Len(@) - 1)]
      [] f.kind = "drop_row" -> DropRow(block, f.row)
      [] f.kind = "figure" ->
            [block EXCEPT ![f.row] =
                [c \in 1..Len(@) |->
                    IF c \in {FigureColumn(@), FigureColumn(@) + 5} /\ IsAmountCell(@[c])
                    THEN [@[c] EXCEPT !.n = @ + 1] ELSE @[c]]]

\* The blocks of a document, with a row of one empty cell between two blocks.
RECURSIVE Join(_)
Join(blocks) ==
    IF blocks = <<>> THEN <<>>
    ELSE IF Len(blocks) = 1 THEN blocks[1]
    ELSE blocks[1] \o <<(<<EmptyCell>>)>> \o Join(Tail(blocks))

\* A well-formed block with one posting; the k-th is the account named k.
ValidBlock(column_schema, k) ==
    GenBlock(column_schema, ToString(k), "USD", "debit", 0,
             <<[date |-> 1, description |-> "p", debit |-> Figure(1), credit |-> Absent]>>)

ValidBlocks(column_schema, from, n) ==
    [k \in 1..n |-> ValidBlock(column_schema, from + k)]

Currencies(column_schema) ==
    IF column_schema = "GlobalLedgerCurrency" THEN {"USD"} ELSE {"USD", "EUR"}

\* debit and credit cell of a posting row: one side, a zero beside the amount,
\* both sides, no side, a lone zero.
SideChoices ==
    {<<Figure(1), Absent>>, <<Absent, Figure(1)>>, <<Figure(0), Figure(1)>>,
     <<Figure(1), Figure(1)>>, <<Absent, Absent>>, <<Figure(0), Absent>>}

SideRow(c) == [date |-> 1, description |-> "x", debit |-> c[1], credit |-> c[2]]

PlainSides == {<<Figure(1), Absent>>, <<Absent, Figure(1)>>}

Document(column_schema, blocks, trailing, defect) ==
    [header_row |-> ColumnTitles(column_schema),
     rows |-> Join(blocks) \o (IF trailing THEN <<(<<EmptyCell>>)>> ELSE <<>>),
     defect |-> defect]

\* One block written by one rule after well-formed blocks; its posting rows
\* fill the debit and credit cells in every way of SideChoices.
SideDocument(column_schema) ==
    \E currency \in Currencies(column_schema), rule \in {"debit", "credit"},
       start \in StartingBalances, before \in 0..MaxValidBlocks, trailing \in BOOLEAN,
       n \in 0..MaxPostings :
       \E sides \in [1..n -> SideChoices] :
          document = Document(column_schema,
                        ValidBlocks(column_schema, 0, before)
                          \o <<GenBlock(column_schema, "A", currency, rule, start,
                                        [i \in 1..n |-> SideRow(sides[i])])>>,
                        trailing, "none")

\* A block with one defect, among well-formed blocks.
DefectDocument(column_schema) ==
    \E currency \in Currencies(column_schema), n \in 0..MaxPostings,
       before \in 0..MaxValidBlocks, after \in 0..MaxValidBlocks :
       /\ before + after <= MaxValidBlocks
       /\ \E sides \in [1..n -> PlainSides] :
            LET block == GenBlock(column_schema, "A", currency, "debit", 1,
                                  [i \in 1..n |-> SideRow(sides[i])])
            IN  \E f \in Faults(column_schema, block) :
                   document = Document(column_schema,
                                 ValidBlocks(column_schema, 0, before)
                                   \o <<ApplyFault(block, currency, f)>>
                                   \o ValidBlocks(column_schema, before, after),
                                 FALSE, f.kind)

\* The column titles lack the last title of the schema.
HeaderDefectDocument(column_schema) ==
    LET doc == Document(column_schema, ValidBlocks(column_schema, 0, 1), FALSE,
                        "header_row")
    IN  document = [doc EXCEPT !.header_row = SubSeq(@, 1, Len(@) - 1)]

\* Date, description and amount of the posting rows of account A.
MirrorKeys == {<<1, "x", 1>>, <<1, "x", 2>>, <<2, "x", 1>>}

MirrorRows ==
    {[date |-> k[1], description |-> k[2], debit |-> Figure(k[3]), credit |-> Absent] :
        k \in MirrorKeys}
    \cup
    {[date |-> k[1], description |-> k[2], debit |-> Absent, credit |-> Figure(k[3])] :
        k \in MirrorKeys}

\* The counterpart of a row: the same amount on the other side.
Counterpart(r) == [r EXCEPT !.debit = r.credit, !.credit = r.debit]

Reverse(seq) == [i \in 1..Len(seq) |-> seq[Len(seq) + 1 - i]]

MirrorVariants ==
    {"mirror", "reversed", "other_date", "other_description", "same_sign",
     "extra_row", "missing_row"}

\* The posting rows of account B: the counterparts of the rows of A, or the
\* counterparts but for one difference.
MirrorOf(variant, rs) ==
    LET counterparts == [i \in 1..Len(rs) |-> Counterpart(rs[i])]
    IN  CASE variant = "mirror" -> counterparts
          [] variant = "reversed" -> Reverse(counterparts)
          [] variant = "other_date" ->
                [i \in 1..Len(rs) |->
                    IF i = 1 THEN [counterparts[i] EXCEPT !.date = 3 - @]
                    ELSE counterparts[i]]
          [] variant = "other_description" ->
                [i \in 1..Len(rs) |->
                    IF i = 1 THEN [counterparts[i] EXCEPT !.description = "y"]
                    ELSE counterparts[i]]
          [] variant = "same_sign" ->
                [i \in 1..Len(rs) |-> IF i = 1 THEN rs[i] ELSE counterparts[i]]
          [] variant = "extra_row" ->
                Append(counterparts, SideRow(<<Figure(1), Absent>>))
          [] variant = "missing_row" ->
                SubSeq(counterparts, 2, Len(counterparts))

\* Two accounts: A, a USD account kept by the debit rule, and B, kept by the
\* credit rule, a EUR account where the schema has account currencies.
MirrorDocument(column_schema) ==
    \E n \in 0..MaxPostings, variant \in MirrorVariants :
       \E rs \in [1..n -> MirrorRows] :
          document = Document(column_schema,
                        <<GenBlock(column_schema, "A", "USD", "debit", 0, rs),
                          GenBlock(column_schema, "B",
                                   IF column_schema = "GlobalLedgerCurrency"
                                   THEN "USD" ELSE "EUR",
                                   "credit", 0, MirrorOf(variant, rs))>>,
                        FALSE, "none")

(***************************************************************************)
(* load, followed by the pipeline of main: merge, sort, per-date check.    *)
(***************************************************************************)
InitLoad ==
    /\ \E column_schema \in Schemas :
          \/ SideDocument(column_schema)
          \/ DefectDocument(column_schema)
          \/ HeaderDefectDocument(column_schema)
          \/ MirrorDocument(column_schema)
    /\ wave_ledger = NoLedger
    /\ account_balances = <<>>
    /\ lpc = "input"
    /\ MergeIdle
    /\ ValidateIdle
    /\ CellIdle

\* load_wave_ledger
LoadWaveLedger ==
    /\ lpc = "input"
    /\ wave_ledger' = ParseLedger(document)
    /\ lpc' = IF wave_ledger'.ok THEN "parsed" ELSE "failed"
    /\ UNCHANGED <<document, account_balances>>
    /\ UNCHANGED mergeVars
    /\ UNCHANGED validateVars
    /\ UNCHANGED cellVars

\* to_ir: on success the Ledger exists and main goes on with it.
ToIr ==
    /\ lpc = "parsed"
    /\ \E ir \in {ToIrOf(wave_ledger)} :
          IF ir.ok
          THEN /\ ledger_name' = ir.ledger_name
               /\ dates' = ir.dates
               /\ transactions' = ir.transactions
               /\ input' = ir.transactions
               /\ account_balances' = ir.account_balances
               /\ lpc' = "loaded"
               /\ mpc' = "loaded"
          ELSE /\ lpc' = "failed"
               /\ UNCHANGED <<transactions, ledger_name, dates, input,
                               account_balances, mpc>>
    /\ UNCHANGED <<document, wave_ledger, groups, result, checkResult>>
    /\ UNCHANGED validateVars
    /\ UNCHANGED cellVars

NextLoad ==
    \/ LoadWaveLedger
    \/ ToIr
    \/ MergeGroupBy
    \/ MergeGroup
    \/ MergeCollect
    \/ Sort
    \/ Check

SpecLoad == InitLoad /\ [][NextLoad]_vars

(***************************************************************************)
(* Properties of load and of the pipeline.                                 *)
(***************************************************************************)
\* load has just returned the Ledger.
LoadReturnedOk == lpc = "loaded" /\ mpc = "loaded"

\* load_wave_ledger has returned, and load has not gone further than to return.
ParserReturned == lpc = "parsed" \/ lpc = "failed" \/ LoadReturnedOk

\* The document was checked after merge and sort, as main does.
PipelineDone == mpc = "checked" /\ checkResult.at = "sorted"

\* The blocks of the document: the maximal runs of rows that are not a row
\* of one empty cell.
RECURSIVE SplitBlocks(_, _, _, _)
SplitBlocks(rows, i, current, blocks) ==
    IF i > Len(rows)
    THEN IF current = <<>> THEN blocks ELSE Append(blocks, current)
    ELSE IF RowWithEmptyCell(rows[i])
    THEN SplitBlocks(rows, i + 1, <<>>,
                     IF current = <<>> THEN blocks ELSE Append(blocks, current))
    ELSE SplitBlocks(rows, i + 1, Append(current, rows[i]), blocks)

Blocks == SplitBlocks(document.rows, 1, <<>>, <<>>)

\* The block, taken alone, is an account the parser accepts and validates.
BlockAccepted(column_schema, block) ==
    /\ ParseAccount(column_schema, block, 1).ok
    /\ ParseAccount(column_schema, block, 1).next = Len(block) + 1

\* C7: fail-fast, no partial ledger.  load returns a Ledger only if the header
\* row is one of the two schemas, every block of the document is accepted by
\* the account parser and validate, and every posting of every account
\* assembles; the Ledger then has one account per block.  Otherwise load
\* fails, and no transactions and no balances exist and the pipeline does not
\* start.  A document with a defect in one block is never loaded, whatever
\* well-formed blocks stand before or after it.
C7_FailFast ==
    /\ LoadReturnedOk =>
          /\ HeaderRow(document.header_row).ok
          /\ Len(wave_ledger.accounts) = Len(Blocks)
          /\ \A k \in 1..Len(Blocks) :
                /\ BlockAccepted(wave_ledger.column_schema, Blocks[k])
                /\ wave_ledger.accounts[k]
                      = ParseAccount(wave_ledger.column_schema, Blocks[k], 1).account
          /\ \A k \in 1..Len(wave_ledger.accounts) :
                /\ AccountBalanceOf(wave_ledger.accounts[k]).ok
                /\ \A j \in 1..Len(wave_ledger.accounts[k].postings) :
                      PostingAmount(wave_ledger.accounts[k].postings[j]).ok
    /\ lpc = "failed" =>
          /\ transactions = <<>>
          /\ account_balances = <<>>
          /\ mpc = "idle"
    /\ document.defect # "none" => lpc \in {"input", "failed"}

\* load failed on a document of well-formed blocks followed by a block with a
\* defect.
C7_Witness ==
    /\ lpc = "failed"
    /\ document.defect \notin {"none", "header_row"}
    /\ Len(Blocks) >= 2
    /\ BlockAccepted(HeaderRow(document.header_row).column_schema, Blocks[1])
    /\ ~BlockAccepted(HeaderRow(document.header_row).column_schema, Blocks[Len(Blocks)])

PerAccountCurrency ==
    document.header_row = BusinessCurrencyColumns \o AccountCurrencyColumns

\* The rows of a block after the account header row carry the ledger currency
\* code USD and the account currency code of the starting balance row.
SameCodes(block) ==
    \A r \in 2..Len(block) :
       /\ Len(block[r]) = 12
       /\ CellText(block[r][7]) = LEDGER_CURRENCY
       /\ CellText(block[r][12]) = CellText(block[2][12])

IsPostingRowOfDocument(row) == Len(row) >= 6 /\ IsDateCell(row[2])

\* Exactly one of the debit and the credit cell holds an amount, and the
\* amount is not zero.
OneSide(row) ==
    \/ IsAmountCell(row[4]) /\ row[4].n # 0 /\ IsEmptyCell(row[5])
    \/ IsAmountCell(row[5]) /\ row[5].n # 0 /\ IsEmptyCell(row[4])

\* The document is as written from its figures: no defect was applied and
\* every posting row has its amount on one side.
WrittenConsistently ==
    /\ document.defect = "none"
    /\ \A i \in 1..Len(document.rows) :
          IsPostingRowOfDocument(document.rows[i]) => OneSide(document.rows[i])

\* C8: under PerAccountCurrency the parser accepts a document only if in every
\* block the posting rows, the totals-and-ending-balance row and the
\* balance-change row carry the ledger currency code USD and the account
\* currency code of the starting-balance row of the block; a document with a
\* row of another ledger or account currency code fails; and a document whose
\* blocks keep their codes and are written consistently from their figures,
\* in USD or in EUR, is accepted by the parser.
C8_CurrencyCodes ==
    ParserReturned /\ PerAccountCurrency =>
       /\ wave_ledger.ok => \A k \in 1..Len(Blocks) : SameCodes(Blocks[k])
       /\ document.defect \in {"ledger_currency", "account_currency"} => lpc = "failed"
       /\ WrittenConsistently => wave_ledger.ok

\* A block with postings in which one row is written in another account
\* currency than the starting balance row made load fail.
C8_Witness ==
    /\ PerAccountCurrency
    /\ lpc = "failed"
    /\ document.defect = "account_currency"
    /\ \E k \in 1..Len(Blocks) :
          /\ ~SameCodes(Blocks[k])
          /\ Len(Blocks[k]) > 4
          /\ CellText(Blocks[k][2][7]) = LEDGER_CURRENCY

\* C9 as stated: every posting row of a document for which load returns a
\* Ledger has exactly one of its debit and credit cells non-empty.
C9_AsStated ==
    LoadReturnedOk =>
       \A i \in 1..Len(document.rows) :
          IsPostingRowOfDocument(document.rows[i]) =>
             IsEmptyCell(document.rows[i][4]) # IsEmptyCell(document.rows[i][5])

AccountA == wave_ledger.accounts[1]
AccountB == wave_ledger.accounts[2]

\* debit - credit of a parsed posting, in the ledger currency
LedgerNet(posting) ==
    posting.debit.in_ledger_currency - posting.credit.in_ledger_currency

Abs(n) == IF n < 0 THEN -n ELSE n

IsCounterpart(p, q) ==
    /\ q.date = p.date
    /\ q.description = p.description
    /\ LedgerNet(q) = -LedgerNet(p)

CounterpartsInB(p) ==
    {j \in 1..Len(AccountB.postings) : IsCounterpart(p, AccountB.postings[j])}

\* Every posting of A has exactly one counterpart in B, and no two postings of
\* A share date, description and absolute amount.
Mirrored ==
    /\ wave_ledger.ok
    /\ Len(wave_ledger.accounts) = 2
    /\ \A i \in 1..Len(AccountA.postings) :
          Cardinality(CounterpartsInB(AccountA.postings[i])) = 1
    /\ \A i, j \in 1..Len(AccountA.postings) :
          i # j =>
             ~(/\ AccountA.postings[i].date = AccountA.postings[j].date
               /\ AccountA.postings[i].description = AccountA.postings[j].description
               /\ Abs(LedgerNet(AccountA.postings[i])) = Abs(LedgerNet(AccountA.postings[j])))

\* The posting of the IR made of a posting of an account.
IrPostingOf(acct, posting) ==
    [account_name |-> acct.name, amount |-> AmountSub(posting.debit, posting.credit)]

PostingSet(transaction) ==
    {transaction.postings[k] : k \in 1..Len(transaction.postings)}

\* The transaction is the posting i of A together with its counterpart in B.
IsMirroredPair(transaction, i) ==
    /\ transaction.date = AccountA.postings[i].date
    /\ transaction.description = AccountA.postings[i].description
    /\ Len(transaction.postings) = 2
    /\ \E j \in CounterpartsInB(AccountA.postings[i]) :
          PostingSet(transaction) = {IrPostingOf(AccountA, AccountA.postings[i]),
                                     IrPostingOf(AccountB, AccountB.postings[j])}

\* One two-posting transaction per mirrored pair, and nothing else.
OneTransactionPerPair ==
    /\ Len(transactions) = Len(AccountA.postings)
    /\ \A t \in 1..Len(transactions) : Len(transactions[t].postings) = 2
    /\ \A i \in 1..Len(AccountA.postings) :
          Cardinality({t \in 1..Len(transactions) : IsMirroredPair(transactions[t], i)}) = 1

CharAt(chars, i) == IF i \in 1..Len(chars) THEN chars[i] ELSE ""

DigitChars == {"0", "1", "2", "3", "4", "5", "6", "7", "8", "9"}

DigitValue(c) ==
    CASE c = "0" -> 0 [] c = "1" -> 1 [] c = "2" -> 2 [] c = "3" -> 3 [] c = "4" -> 4
      [] c = "5" -> 5 [] c = "6" -> 6 [] c = "7" -> 7 [] c = "8" -> 8 [] c = "9" -> 9

\* Decimal: mantissa / 10^scale
Decimal(mantissa, scale) == [mantissa |-> mantissa, scale |-> scale]

RECURSIVE Pow10(_)
Pow10(n) == IF n = 0 THEN 1 ELSE 10 * Pow10(n - 1)

\* Decimal's PartialEq: equality of the numbers, whatever the scales
DecimalEq(a, b) == a.mantissa * Pow10(b.scale) = b.mantissa * Pow10(a.scale)

\* The digits of the content read as one integer, the point left out.
RECURSIVE Mantissa(_, _)
Mantissa(content, i) ==
    IF i = 0 THEN 0
    ELSE IF content[i] = "." THEN Mantissa(content, i - 1)
    ELSE 10 * Mantissa(content, i - 1) + DigitValue(content[i])

Points(content) == {i \in 1..Len(content) : content[i] = "."}

\* The number of digits after the point.
ScaleOf(content) ==
    IF Points(content) = {} THEN 0
    ELSE Len(content) - (CHOOSE i \in Points(content) : TRUE)

AmountFail(msg) == [ok |-> FALSE, err |-> msg]

\* Decimal::from_str_exact on digits and points: the results it can give.  A
\* content with a point at its start or at its end has digits and one point;
\* whether the library takes it is not fixed here.
FromStrExact(content) ==
    IF Cardinality(Points(content)) > 1 \/ Cardinality(Points(content)) = Len(content)
    THEN {AmountFail("Failed to parse amount")}
    ELSE IF content[1] = "." \/ content[Len(content)] = "."
    THEN {AmountFail("Failed to parse amount"),
          [ok |-> TRUE, err |-> "",
           amount |-> Decimal(Mantissa(content, Len(content)), ScaleOf(content))]}
    ELSE {[ok |-> TRUE, err |-> "",
           amount |-> Decimal(Mantissa(content, Len(content)), ScaleOf(content))]}

\* amount(): one_of("0123456789.").then_ignore(just(',').or_not()).repeated()
RECURSIVE NumberChars(_, _, _)
NumberChars(chars, i, content) ==
    IF CharAt(chars, i) \in DigitChars \cup {"."}
    THEN NumberChars(chars, IF CharAt(chars, i + 1) = "," THEN i + 2 ELSE i + 1,
                     Append(content, chars[i]))
    ELSE [content |-> content, next |-> i]

\* amount(): currency_symbol
CurrencySymbolAt(chars, i) ==
    IF CharAt(chars, i) \in {"$", "€", "£"}
    THEN [ok |-> TRUE, symbol |-> chars[i], next |-> i + 1]
    ELSE IF CharAt(chars, i) = "C" /\ CharAt(chars, i + 1) = "H" /\ CharAt(chars, i + 2) = "F"
    THEN [ok |-> TRUE, symbol |-> "CHF", next |-> i + 3]
    ELSE [ok |-> FALSE, symbol |-> "", next |-> i]

\* amount(): nothing stands between the currency symbol and the number
MinusAfterSymbol(chars, i) == i

\* amount(): the map over (negative, currency_symbol, amount), and the end()
\* that cell() puts after the content parser
AmountMap(chars, negative, symbol, number) ==
    IF number.content = <<>>
    THEN {AmountFail("number")}
    ELSE IF number.next # Len(chars) + 1
    THEN {AmountFail("end of input")}
    ELSE {IF parsed.ok
          THEN [ok |-> TRUE, err |-> "",
                amount |-> IF negative
                           THEN Decimal(-parsed.amount.mantissa, parsed.amount.scale)
                           ELSE parsed.amount,
                currency_symbol |-> symbol]
          ELSE parsed : parsed \in FromStrExact(number.content)}

AmountAfterSymbol(chars, negative, symbol) ==
    IF ~symbol.ok
    THEN {AmountFail("currency symbol")}
    ELSE AmountMap(chars, negative, symbol.symbol,
                   NumberChars(chars, MinusAfterSymbol(chars, symbol.next), <<>>))

\* amount(), on the whole content of a cell: the results it can give
ParseAmount(chars) ==
    AmountAfterSymbol(chars, CharAt(chars, 1) = "-",
                      CurrencySymbolAt(chars, IF CharAt(chars, 1) = "-" THEN 2 ELSE 1))

\* digit1: the position after the run of digits that starts at i
RECURSIVE Digit1(_, _)
Digit1(chars, i) ==
    IF CharAt(chars, i) \in DigitChars THEN Digit1(chars, i + 1) ELSE i

\* str::parse of a run of digits
RECURSIVE ParseInt(_, _, _)
ParseInt(chars, from, to) ==
    IF to < from THEN 0
    ELSE 10 * ParseInt(chars, from, to - 1) + DigitValue(chars[to])

IsLeapYear(year) == year % 4 = 0 /\ (year % 100 # 0 \/ year % 400 = 0)

DaysInMonth(year, month) ==
    CASE month \in {1, 3, 5, 7, 8, 10, 12} -> 31
      [] month \in {4, 6, 9, 11} -> 30
      [] OTHER -> IF IsLeapYear(year) THEN 29 ELSE 28

\* NaiveDate::from_ymd_opt(..).is_some()
FromYmdOpt(year, month, day) ==
    month \in 1..12 /\ day \in 1..DaysInMonth(year, month)

DateFail(msg) == [ok |-> FALSE, err |-> msg]

\* date: digits(expected_len) at position i must be a run of exactly
\* expected_len digits; `to` is the position after the run.
DigitsOk(i, to, expected_len) == to - i = expected_len

\* date: the map_res over (year, "-", month, "-", day); `rest` is the position
\* of the input that is left over.
DateMapRes(chars, y, m, d) ==
    IF FromYmdOpt(ParseInt(chars, 1, y - 1), ParseInt(chars, y + 1, m - 1),
                  ParseInt(chars, m + 1, d - 1))
    THEN [ok |-> TRUE, err |-> "",
          date |-> [year |-> ParseInt(chars, 1, y - 1),
                    month |-> ParseInt(chars, y + 1, m - 1),
                    day |-> ParseInt(chars, m + 1, d - 1)],
          rest |-> d]
    ELSE DateFail("Invalid date")

\* date: the tuple of the five parsers; y, m and d are the positions after
\* the runs of digits of the year, the month and the day.
DateTuple(chars, y, m, d) ==
    IF ~DigitsOk(1, y, 4) THEN DateFail("Invalid number of digits")
    ELSE IF CharAt(chars, y) # "-" THEN DateFail("tag")
    ELSE IF ~DigitsOk(y + 1, m, 2) THEN DateFail("Invalid number of digits")
    ELSE IF CharAt(chars, m) # "-" THEN DateFail("tag")
    ELSE IF ~DigitsOk(m + 1, d, 2) THEN DateFail("Invalid number of digits")
    ELSE DateMapRes(chars, y, m, d)

DateDay(chars, y, m) == DateTuple(chars, y, m, Digit1(chars, m + 1))

DateMonth(chars, y) == DateDay(chars, y, Digit1(chars, y + 1))

\* date
ParseDate(chars) == DateMonth(chars, Digit1(chars, 1))

\* date_cell: the map_res over the content of the cell; what date left over
\* is dropped.
DateCellMapRes(parsed, chars) ==
    IF parsed.ok
    THEN [ok |-> TRUE, err |-> "", date |-> parsed.date]
    ELSE DateFail("Invalid date")

\* date_cell, on the content of a cell
ParseDateCell(chars) == DateCellMapRes(ParseDate(chars), chars)

(***************************************************************************)
(* import/parser/utils/csv.rs: the cell tokenizer, on the raw input.       *)
(***************************************************************************)
Quote == "\""

\* cell_end(): one of ",\r\n", or the end of the input
IsCellEnd(c) == c \in {",", "\r", "\n", ""}

\* quoted_cell: quoted_cell_content, from position i on; `next` is the position
\* of the quote that is neither doubled nor content.
RECURSIVE QuotedCellContent(_, _, _)
QuotedCellContent(chars, i, content) ==
    IF i > Len(chars)
    THEN [content |-> content, next |-> i]
    ELSE IF chars[i] # Quote
    THEN QuotedCellContent(chars, i + 1, Append(content, chars[i]))
    ELSE IF CharAt(chars, i + 1) = Quote
    THEN QuotedCellContent(chars, i + 2, Append(content, Quote))
    ELSE [content |-> content, next |-> i]

CellFail(msg) == [ok |-> FALSE, err |-> msg]

\* quoted_cell: the closing quote after the content
QuotedCellEnd(chars, quoted) ==
    IF CharAt(chars, quoted.next) = Quote
    THEN [ok |-> TRUE, err |-> "", content |-> quoted.content, next |-> quoted.next + 1]
    ELSE CellFail("quoted csv cell")

\* quoted_cell
QuotedCell(chars) ==
    IF CharAt(chars, 1) = Quote
    THEN QuotedCellEnd(chars, QuotedCellContent(chars, 2, <<>>))
    ELSE CellFail("quoted csv cell")

\* cell_end().not().repeated(): the position of the next cell end
RECURSIVE UntilCellEnd(_, _)
UntilCellEnd(chars, i) ==
    IF IsCellEnd(CharAt(chars, i)) THEN i ELSE UntilCellEnd(chars, i + 1)

\* unquoted_cell
UnquotedCell(chars) ==
    IF CharAt(chars, 1) # Quote /\ ~IsCellEnd(CharAt(chars, 1))
    THEN [ok |-> TRUE, err |-> "",
          content |-> SubSeq(chars, 1, UntilCellEnd(chars, 2) - 1),
          next |-> UntilCellEnd(chars, 2)]
    ELSE IF IsCellEnd(CharAt(chars, 1))
    THEN [ok |-> TRUE, err |-> "", content |-> <<>>, next |-> 1]
    ELSE CellFail("unquoted csv cell")

\* Mutant: nothing is asked of what follows the cell.
CellEndRewindAnything(chars, parsed) == parsed

\* then_ignore(cell_end().rewind())
CellEndRewind(chars, parsed) ==
    IF parsed.ok /\ ~IsCellEnd(CharAt(chars, parsed.next))
    THEN CellFail("cell end")
    ELSE parsed

\* quoted_cell().or(unquoted_cell())
QuotedOrUnquoted(chars, quoted) == IF quoted.ok THEN quoted ELSE UnquotedCell(chars)

\* cell(any().repeated().collect()), i.e. any_cell: the decoded content
ParseCell(chars) == CellEndRewind(chars, QuotedOrUnquoted(chars, QuotedCell(chars)))

(***************************************************************************)
(* The cell parsers run on their own: one text, one parser, one result.    *)
(***************************************************************************)
BoundedSeq(S, n) == UNION {[1..k -> S] : k \in 0..n}

AmountExamples ==
    {<<"$", "1", ",", "2", "3", "4", ".", "5", "6">>,
     <<"-", "$", "1", "2", "3", ".", "4", "5">>,
     <<"$", "-", "1", "2", "3", ".", "4", "5">>,
     <<"1", "2", "3", ".", "4", "5">>,
     <<"$", "1", "2", "3", ".", "4", ".", "5">>,
     <<"$", "1", "2", "3", ".", "4", "5", " ">>}

AmountSymbols == {<<>>, <<"$">>, <<"€">>, <<"C", "H", "F">>}

AmountTexts ==
    AmountExamples \cup
    {sign \o symbol \o minus \o number \o trailing :
        sign \in {<<>>, <<"-">>}, symbol \in AmountSymbols, minus \in {<<>>, <<"-">>},
        number \in BoundedSeq({"0", "1", ",", "."}, MaxNumberLen),
        trailing \in {<<>>, <<" ">>}}

DateExamples ==
    {<<"2", "0", "2", "1", "-", "0", "2", "-", "2", "8">>,
     <<"2", "0", "2", "1", "-", "0", "2", "-", "2", "9">>,
     <<"1", "9", "8", "0", "-", "1", "3", "-", "1", "4">>,
     <<"1", "9", "8", "0", "-", "0", "5", "-", "0", "0">>,
     <<"1", "9", "8", "0", "-", "5", "-", "1", "4">>,
     <<"1", "9", "8", "0", "-", "0", "5", "-", "5">>}

DateTexts ==
    DateExamples \cup
    {year \o dash1 \o month \o dash2 \o day \o trailing :
        year \in {<<"2", "0", "2", "1">>, <<"2", "0", "2", "0">>, <<"1", "9", "0", "0">>,
                  <<"2", "0", "0", "0">>, <<"1", "9", "8">>, <<"0", "1", "9", "8", "0">>},
        dash1 \in {<<"-">>, <<>>, <<"/">>},
        month \in {<<"0", "2">>, <<"2">>, <<"1", "3">>, <<"0", "0">>, <<"1", "2">>,
                   <<"0", "4">>, <<"0", "0", "2">>},
        dash2 \in {<<"-">>, <<>>},
        day \in {<<"2", "8">>, <<"2", "9">>, <<"3", "0">>, <<"3", "1">>, <<"0", "0">>,
                 <<"5">>, <<"0", "5">>, <<"3", "2">>},
        trailing \in {<<>>, <<"x">>, <<"1">>, <<" ">>}}

CellTexts == BoundedSeq({"a", Quote, ",", "\n", "\r"}, MaxCellLen)

InitCells ==
    /\ \/ cpc = "amount" /\ text \in AmountTexts
       \/ cpc = "date" /\ text \in DateTexts
       \/ cpc = "cell" /\ text \in CellTexts
    /\ cell_result = NoCellResult
    /\ ValidateIdle
    /\ MergeIdle
    /\ LoadIdle

\* amount_cell, on the content of the cell
ParseAmountCell ==
    /\ cpc = "amount"
    /\ \E r \in ParseAmount(text) : cell_result' = r
    /\ cpc' = "amount done"
    /\ UNCHANGED <<text, validateVars, mergeVars, loadVars>>

\* date_cell, on the content of the cell
DateCellStep ==
    /\ cpc = "date"
    /\ cell_result' = ParseDateCell(text)
    /\ cpc' = "date done"
    /\ UNCHANGED <<text, validateVars, mergeVars, loadVars>>

\* any_cell, on the raw input
AnyCell ==
    /\ cpc = "cell"
    /\ cell_result' = ParseCell(text)
    /\ cpc' = "cell done"
    /\ UNCHANGED <<text, validateVars, mergeVars, loadVars>>

NextCells == ParseAmountCell \/ DateCellStep \/ AnyCell

SpecCells == InitCells /\ [][NextCells]_vars

HasSymbol(chars) == \E i \in 1..Len(chars) : chars[i] \in {"$", "€", "£", "C"}

\* The text with its first two characters in the other order.
SwapFirstTwo(chars) == <<chars[2], chars[1]>> \o SubSeq(chars, 3, Len(chars))

\* C11 (as stated): "$1,234.56" is 1234.56 with symbol $; a minus sign before
\* the currency symbol and a minus sign after it give the same negative amount,
\* so "-$123.45" and "$-123.45" are both -123.45; a text with no currency
\* symbol, with two decimal points or with trailing text is rejected.
C11_AsStated ==
    cpc = "amount done" =>
        /\ text = <<"$", "1", ",", "2", "3", "4", ".", "5", "6">> =>
              /\ cell_result.ok
              /\ DecimalEq(cell_result.amount, Decimal(123456, 2))
              /\ cell_result.currency_symbol = "$"
        /\ text \in {<<"-", "$", "1", "2", "3", ".", "4", "5">>,
                     <<"$", "-", "1", "2", "3", ".", "4", "5">>} =>
              /\ cell_result.ok
              /\ DecimalEq(cell_result.amount, Decimal(-12345, 2))
        /\ (/\ Len(text) >= 2
            /\ text[2] = "-"
            /\ \A r \in ParseAmount(SwapFirstTwo(text)) : r.ok) =>
              /\ cell_result.ok
              /\ \E r \in ParseAmount(SwapFirstTwo(text)) :
                    DecimalEq(cell_result.amount, r.amount)
        /\ (\/ ~HasSymbol(text)
            \/ Cardinality(Points(text)) >= 2
            \/ CharAt(text, Len(text)) = " ") => ~cell_result.ok

\* Four digits, '-', two digits, '-', two digits, and nothing else.
DateShape(chars) ==
    /\ Len(chars) = 10
    /\ \A i \in {1, 2, 3, 4, 6, 7, 9, 10} : chars[i] \in DigitChars
    /\ chars[5] = "-"
    /\ chars[8] = "-"

\* The text, of the shape of a date, denotes a day of the calendar.
RealCalendarDate(chars) ==
    FromYmdOpt(ParseInt(chars, 1, 4), ParseInt(chars, 6, 7), ParseInt(chars, 9, 10))

\* C12 (as stated): a date cell is accepted only if its whole content is four
\* digits, '-', two digits, '-', two digits and denotes a real calendar date;
\* "2021-02-29", "1980-13-14", "1980-05-00", "1980-5-14" and "1980-05-5" are
\* rejected and "2021-02-28" is accepted.
C12_AsStated ==
    cpc = "date done" =>
        /\ cell_result.ok => DateShape(text) /\ RealCalendarDate(text)
        /\ text = <<"2", "0", "2", "1", "-", "0", "2", "-", "2", "8">> => cell_result.ok
        /\ text \in {<<"2", "0", "2", "1", "-", "0", "2", "-", "2", "9">>,
                     <<"1", "9", "8", "0", "-", "1", "3", "-", "1", "4">>,
                     <<"1", "9", "8", "0", "-", "0", "5", "-", "0", "0">>,
                     <<"1", "9", "8", "0", "-", "5", "-", "1", "4">>,
                     <<"1", "9", "8", "0", "-", "0", "5", "-", "5">>} => ~cell_result.ok

\* The first position, from 2 on, of the run of quotes that ends at k.
RunStart(chars, k) ==
    CHOOSE j \in 2..k :
        /\ \A i \in j..k : chars[i] = Quote
        /\ j = 2 \/ chars[j - 1] # Quote

\* The quotes after the opening one that end a run of an odd number of quotes:
\* a run of doubled quotes and then one quote more.
OddRunEnds(chars) ==
    {k \in 2..Len(chars) :
        /\ chars[k] = Quote
        /\ CharAt(chars, k + 1) # Quote
        /\ (k - RunStart(chars, k) + 1) % 2 = 1}

Min(S) == CHOOSE k \in S : \A other \in S : k <= other

\* The content written as the inside of a quoted cell: every quote doubled.
RECURSIVE DoubleQuotes(_)
DoubleQuotes(content) ==
    IF content = <<>> THEN <<>>
    ELSE (IF Head(content) = Quote THEN <<Quote, Quote>> ELSE <<Head(content)>>)
         \o DoubleQuotes(Tail(content))

\* C19 (quoted cell): an input that opens with a quote is accepted exactly when
\* it has a closing quote (the first quote that is not part of a doubled quote)
\* and a comma, CR, LF or the end of the input follows it directly; the content
\* is then the text between the two quotes with each doubled quote as one quote,
\* commas, CR and LF kept, and the cell stops right after the closing quote.
QuotedCellDecoded ==
    CharAt(text, 1) = Quote =>
        /\ cell_result.ok <=>
              /\ OddRunEnds(text) # {}
              /\ IsCellEnd(CharAt(text, Min(OddRunEnds(text)) + 1))
        /\ cell_result.ok =>
              /\ cell_result.next = Min(OddRunEnds(text)) + 1
              /\ DoubleQuotes(cell_result.content) = SubSeq(text, 2, cell_result.next - 2)

\* C19 (unquoted cell): an input that does not open with a quote is accepted,
\* and its content is the run of characters up to, not including, the next
\* comma, CR, LF or the end of the input.
UnquotedCellDecoded ==
    CharAt(text, 1) # Quote =>
        /\ cell_result.ok
        /\ cell_result.content = SubSeq(text, 1, cell_result.next - 1)
        /\ IsCellEnd(CharAt(text, cell_result.next))
        /\ \A i \in 1..(cell_result.next - 1) : ~IsCellEnd(text[i])

\* C19: the cell tokenizer decodes quoted and unquoted cells as described and
\* fails only on an opening quote without its closing quote or on a closing
\* quote that is not directly followed by a comma, CR, LF or the end of input.
C19_CellTokenizer ==
    cpc = "cell done" => QuotedCellDecoded /\ UnquotedCellDecoded

\* A quoted cell with a doubled quote and a comma inside has been decoded.
C19_Witness ==
    /\ cpc = "cell done"
    /\ CharAt(text, 1) = Quote
    /\ cell_result.ok
    /\ \E i, j \in 1..Len(cell_result.content) :
          cell_result.content[i] = Quote /\ cell_result.content[j] = ","

(***************************************************************************)
(* load on documents that differ in the order of the rows, in what follows *)
(* the last block, and in the schema the rows are written for.             *)
(***************************************************************************)
InsertRow(block, at, row) ==
    SubSeq(block, 1, at - 1) \o <<row>> \o SubSeq(block, at, Len(block))

\* The rows of a block that are not posting rows: the first two and the last two.
NonPostingRows(block) == {1, 2, Len(block) - 1, Len(block)}

\* A block as written, without one of its non-posting rows, with one of them
\* a second time somewhere, or with one of them at another place.
RowEdits(block) ==
    {[kind |-> "none", row |-> 0, at |-> 0]}
    \cup [kind : {"drop"}, row : NonPostingRows(block), at : {0}]
    \cup [kind : {"repeat"}, row : NonPostingRows(block), at : 1..(Len(block) + 1)]
    \cup {e \in [kind : {"move"}, row : NonPostingRows(block), at : 1..Len(block)] :
            e.at # e.row}

ApplyRowEdit(block, e) ==
    CASE e.kind = "none" -> block
      [] e.kind = "drop" -> DropRow(block, e.row)
      [] e.kind = "repeat" -> InsertRow(block, e.at, block[e.row])
      [] e.kind = "move" -> InsertRow(DropRow(block, e.row), e.at, block[e.row])

OrderDocument(column_schema) ==
    \E currency \in Currencies(column_schema), n \in 0..MaxPostings,
       start \in {0, 1}, before \in 0..MaxValidBlocks :
       \E sides \in [1..n -> PlainSides] :
          \E e \in RowEdits(GenBlock(column_schema, "A", currency, "debit", start,
                                     [i \in 1..n |-> SideRow(sides[i])])) :
             document = Document(column_schema,
                           ValidBlocks(column_schema, 0, before)
                             \o <<ApplyRowEdit(
                                    GenBlock(column_schema, "A", currency, "debit", start,
                                             [i \in 1..n |-> SideRow(sides[i])]), e)>>,
                           FALSE, "order")

\* The rows between two blocks and after the last block.
SeparatorRow == <<EmptyCell>>
BlaRow == <<TextCell("bla")>>

Gaps == {<<>>, <<SeparatorRow>>, <<SeparatorRow, SeparatorRow>>, <<BlaRow>>}

Tails ==
    Gaps \cup {<<SeparatorRow, BlaRow>>, <<BlaRow, SeparatorRow>>,
               <<SeparatorRow, GenHeaderRow("GlobalLedgerCurrency", "B")>>}

RECURSIVE JoinWith(_, _)
JoinWith(blocks, gap) ==
    IF blocks = <<>> THEN <<>>
    ELSE IF Len(blocks) = 1 THEN blocks[1]
    ELSE blocks[1] \o gap \o JoinWith(Tail(blocks), gap)

\* Well-formed blocks, the same rows between every two of them, and rows after
\* the last one.
TailDocument(column_schema) ==
    \E n \in 0..(MaxValidBlocks + 1), gap \in Gaps, tail \in Tails,
       lead \in {<<>>, <<SeparatorRow>>} :
       document = [header_row |-> ColumnTitles(column_schema),
                   rows |-> lead \o JoinWith(ValidBlocks(column_schema, 0, n), gap) \o tail,
                   defect |-> "tail"]

OtherSchema(column_schema) ==
    IF column_schema = "GlobalLedgerCurrency" THEN "PerAccountCurrency"
    ELSE "GlobalLedgerCurrency"

\* Column titles that are one of the two patterns, or near one of them.
HeaderRows ==
    {BusinessCurrencyColumns, BusinessCurrencyColumns \o AccountCurrencyColumns,
     BusinessCurrencyColumns \o AccountCurrencyColumns \o <<EmptyCell>>,
     [BusinessCurrencyColumns \o AccountCurrencyColumns EXCEPT ![8] = TextCell("x")],
     [BusinessCurrencyColumns EXCEPT ![2] = TextCell("Date")]}
    \cup {BusinessCurrencyColumns \o SubSeq(AccountCurrencyColumns, 1, k) : k \in 1..5}
    \cup {SubSeq(BusinessCurrencyColumns, 1, k) : k \in 0..5}

\* Well-formed blocks under column titles of any kind.
HeaderDocument(column_schema) ==
    \E header_row \in HeaderRows, n \in 0..(MaxValidBlocks + 1) :
       document = [header_row |-> header_row,
                   rows |-> Join(ValidBlocks(column_schema, 0, n)),
                   defect |-> "header"]

\* The rows of the block that are written for the other schema.
RowsOfOtherSchema(block) == SUBSET (1..Len(block))

\* A block of which some rows are written for the other schema, after
\* well-formed blocks, under the column titles of either schema.
SchemaDocument(column_schema) ==
    \E titles \in Schemas, currency \in Currencies(column_schema),
       n \in 0..MaxPostings, before \in 0..MaxValidBlocks :
       \E others \in RowsOfOtherSchema(
                        GenBlock(column_schema, "A", currency, "debit", 0,
                                 [i \in 1..n |-> SideRow(<<Figure(1), Absent>>)])) :
          document =
             [header_row |-> ColumnTitles(titles),
              rows |-> Join(ValidBlocks(column_schema, 0, before)
                       \o <<[r \in 1..(n + 4) |->
                               IF r \in others
                               THEN GenBlock(OtherSchema(column_schema), "A", "USD",
                                             "debit", 0,
                                             [i \in 1..n |->
                                                 SideRow(<<Figure(1), Absent>>)])[r]
                               ELSE GenBlock(column_schema, "A", currency, "debit", 0,
                                             [i \in 1..n |->
                                                 SideRow(<<Figure(1), Absent>>)])[r]]>>),
              defect |-> "schema"]

\* The account-currency figures of a block that are raised or lowered: none,
\* the balance of every row, one cell, or the amount of one posting row with
\* every figure that follows from it.
FigureEdits(block) ==
    {[kind |-> "none", row |-> 0, col |-> 0],
     [kind |-> "balances", row |-> 0, col |-> 0]}
    \cup {e \in [kind : {"cell"}, row : 2..Len(block), col : 9..11] :
            IsAmountCell(block[e.row][e.col])}
    \cup [kind : {"amount"}, row : 3..(Len(block) - 2), col : {0}]

FigureEditDelta(block, e, r, c) ==
    CASE e.kind = "none" -> 0
      [] e.kind = "balances" -> IF c = 11 /\ r \in 2..(Len(block) - 1) THEN 1 ELSE 0
      [] e.kind = "cell" -> IF r = e.row /\ c = e.col THEN 1 ELSE 0
      [] e.kind = "amount" ->
            IF c = (IF IsAmountCell(block[e.row][9]) THEN 9 ELSE 10)
               /\ r \in {e.row, Len(block) - 1}
            THEN 1
            ELSE IF (c = 11 /\ r \in e.row..(Len(block) - 1)) \/ (c = 9 /\ r = Len(block))
            THEN (IF IsAmountCell(block[e.row][9]) THEN 1 ELSE -1)
            ELSE 0

ApplyFigureEdit(block, e) ==
    [r \in 1..Len(block) |->
        [c \in 1..Len(block[r]) |->
            IF IsAmountCell(block[r][c])
            THEN [block[r][c] EXCEPT !.n = @ + FigureEditDelta(block, e, r, c)]
            ELSE block[r][c]]]

\* A block with account-currency columns of which some account-currency
\* figures are not the ledger-currency figures at the rate of the currency.
FiguresDocument(column_schema) ==
    /\ column_schema = "PerAccountCurrency"
    /\ \E currency \in Currencies(column_schema), n \in 0..MaxPostings,
          start \in {0, 1}, before \in 0..MaxValidBlocks :
          \E sides \in [1..n -> PlainSides] :
             \E e \in FigureEdits(GenBlock(column_schema, "A", currency, "debit", start,
                                           [i \in 1..n |-> SideRow(sides[i])])) :
                document = Document(column_schema,
                              ValidBlocks(column_schema, 0, before)
                                \o <<ApplyFigureEdit(
                                       GenBlock(column_schema, "A", currency, "debit",
                                                start,
                                                [i \in 1..n |-> SideRow(sides[i])]), e)>>,
                              FALSE, "figures")

\* Two blocks of one account name: a well-formed block with one posting, then
\* a block written by either rule.
TwinDocument(column_schema) ==
    \E currency \in Currencies(column_schema), rule \in {"debit", "credit"},
       start \in {0, 1}, n \in 0..MaxPostings :
       \E sides \in [1..n -> PlainSides] :
          document = Document(column_schema,
                        <<GenBlock(column_schema, "A", "USD", "debit", 0,
                                   <<SideRow(<<Figure(1), Absent>>)>>),
                          GenBlock(column_schema, "A", currency, rule, start,
                                   [i \in 1..n |-> SideRow(sides[i])])>>,
                        FALSE, "twin")

InitParse ==
    /\ \E column_schema \in Schemas :
          \/ OrderDocument(column_schema)
          \/ TailDocument(column_schema)
          \/ HeaderDocument(column_schema)
          \/ SchemaDocument(column_schema)
          \/ FiguresDocument(column_schema)
          \/ TwinDocument(column_schema)
    /\ wave_ledger = NoLedger
    /\ account_balances = <<>>
    /\ lpc = "input"
    /\ MergeIdle
    /\ ValidateIdle
    /\ CellIdle

NextParse == LoadWaveLedger \/ ToIr

SpecParse == InitParse /\ [][NextParse]_vars

\* What a row is, by its first two cells.
RowKind(row) ==
    CASE RowWithEmptyCell(row) -> "separator"
      [] Len(row) >= 2 /\ IsCellTag(row[1], "Starting Balance") -> "starting"
      [] Len(row) >= 2 /\ IsCellTag(row[1], "Totals and Ending Balance") -> "ending"
      [] Len(row) >= 2 /\ IsCellTag(row[1], "Balance Change") -> "change"
      [] Len(row) >= 2 /\ IsEmptyCell(row[1]) /\ IsDateCell(row[2]) -> "posting"
      [] Len(row) >= 2 /\ IsEmptyCell(row[1]) -> "header"
      [] OTHER -> "other"

\* account-header row, starting-balance row, posting rows, totals-and-ending-
\* balance row, balance-change row, in this order and nothing else.
InRowOrder(block) ==
    /\ Len(block) >= 4
    /\ RowKind(block[1]) = "header"
    /\ RowKind(block[2]) = "starting"
    /\ \A r \in 3..(Len(block) - 2) : RowKind(block[r]) = "posting"
    /\ RowKind(block[Len(block) - 1]) = "ending"
    /\ RowKind(block[Len(block)]) = "change"

\* C13: the account parser accepts the rows of a block only in the order
\* account-header row, starting-balance row, zero or more posting rows,
\* totals-and-ending-balance row, balance-change row.  Every document the
\* parser accepts has all its blocks in this order; of the documents made by
\* dropping, repeating or moving a non-posting row of a well-formed block, the
\* parser accepts exactly those whose blocks are in this order, the blocks
\* with zero posting rows among them.
C13_RowOrder ==
    lpc # "input" =>
        /\ wave_ledger.ok => \A k \in 1..Len(Blocks) : InRowOrder(Blocks[k])
        /\ document.defect = "order" /\ (\A k \in 1..Len(Blocks) : InRowOrder(Blocks[k]))
              => wave_ledger.ok

\* The parser has accepted a block of zero posting rows.
C13_Witness ==
    /\ lpc # "input"
    /\ document.defect = "order"
    /\ wave_ledger.ok
    /\ \E k \in 1..Len(Blocks) : Len(Blocks[k]) = 4 /\ InRowOrder(Blocks[k])

\* Every row of one empty cell stands between two blocks or is the last row:
\* none is followed by another, and none is the first row of rows that follow.
SeparatorsInPlace(rows) ==
    \A i \in 1..Len(rows) :
        RowWithEmptyCell(rows[i]) =>
            /\ i = Len(rows) \/ ~RowWithEmptyCell(rows[i + 1])
            /\ i = 1 => Len(rows) = 1

\* C18: the ledger parser succeeds only when it consumes the whole input.  It
\* accepts a document exactly when the column titles are a schema, the rows
\* are account blocks the account parser accepts, every two consecutive blocks
\* are separated by exactly one row of a single empty cell, and after the last
\* block comes at most one such row and then the end; a document with any
\* further row after the last block, such as a row "bla", is rejected.
C18_WholeInput ==
    lpc # "input" =>
        /\ wave_ledger.ok <=>
              /\ HeaderRow(document.header_row).ok
              /\ SeparatorsInPlace(document.rows)
              /\ \A k \in 1..Len(Blocks) :
                    BlockAccepted(HeaderRow(document.header_row).column_schema, Blocks[k])
        /\ (document.rows # <<>> /\ document.rows[Len(document.rows)] = BlaRow)
              => ~wave_ledger.ok

\* The parser has refused well-formed blocks followed by a separator row and
\* a row "bla".
C18_Witness ==
    /\ lpc = "failed"
    /\ Len(document.rows) > 2
    /\ document.rows[Len(document.rows)] = BlaRow
    /\ document.rows[Len(document.rows) - 1] = SeparatorRow
    /\ Len(Blocks) = MaxValidBlocks + 2
    /\ \A k \in 1..(Len(Blocks) - 1) :
          BlockAccepted(HeaderRow(document.header_row).column_schema, Blocks[k])

\* Every row of every block has the number of cells of the schema.
RowsOfSchema(column_schema) ==
    \A i \in 1..Len(document.rows) :
        \/ RowWithEmptyCell(document.rows[i])
        \/ Len(document.rows[i]) = SchemaWidth(column_schema)

\* C14: the column schema is decided by the row of column titles alone.  An
\* accepted document has the schema GlobalLedgerCurrency exactly when its
\* titles end after the six business-currency columns and PerAccountCurrency
\* exactly when the six account-currency columns follow them; with any other
\* titles the document is rejected.  Every row of every block is parsed with
\* that schema: a document with a row written for the other schema is rejected.
C14_SchemaFromHeader ==
    lpc # "input" =>
        /\ wave_ledger.ok =>
              /\ document.header_row \in
                    {BusinessCurrencyColumns,
                     BusinessCurrencyColumns \o AccountCurrencyColumns}
              /\ wave_ledger.column_schema = "GlobalLedgerCurrency"
                    <=> document.header_row = BusinessCurrencyColumns
              /\ wave_ledger.column_schema = "PerAccountCurrency"
                    <=> document.header_row
                           = BusinessCurrencyColumns \o AccountCurrencyColumns
              /\ RowsOfSchema(wave_ledger.column_schema)
        /\ (/\ document.defect = "schema"
            /\ document.header_row \in
                  {BusinessCurrencyColumns,
                   BusinessCurrencyColumns \o AccountCurrencyColumns}
            /\ RowsOfSchema(IF Len(document.header_row) = 6
                            THEN "GlobalLedgerCurrency" ELSE "PerAccountCurrency"))
              => wave_ledger.ok

\* The parser has refused a document whose titles select one schema and one of
\* whose posting rows is written for the other, all other rows being written
\* for the schema of the titles.
C14_Witness ==
    /\ lpc = "failed"
    /\ document.defect = "schema"
    /\ HeaderRow(document.header_row).ok
    /\ \E i \in 1..Len(document.rows) :
          /\ RowKind(document.rows[i]) = "posting"
          /\ Len(document.rows[i]) # Len(document.header_row)
          /\ \A j \in 1..Len(document.rows) :
                j # i /\ ~RowWithEmptyCell(document.rows[j])
                   => Len(document.rows[j]) = Len(document.header_row)

(***************************************************************************)
(* to_ir against the rows of the document.                                 *)
(***************************************************************************)
PostingRowIndexes ==
    {i \in 1..Len(document.rows) : RowKind(document.rows[i]) = "posting"}

\* The k-th posting row of the document.
NthPostingRow(k) ==
    CHOOSE i \in PostingRowIndexes :
        Cardinality({j \in PostingRowIndexes : j <= i}) = k

\* The name in the account header row of the block that row i belongs to.
OwningAccount(i) ==
    LET headers == {j \in 1..i : RowKind(document.rows[j]) = "header"}
    IN  CellText(document.rows[CHOOSE h \in headers : \A j \in headers : j <= h][2])

\* debit - credit of a posting row, from its cells
RowAmount(column_schema, row) ==
    Amount(IF column_schema = "GlobalLedgerCurrency"
           THEN AmountOrZero(row[4]) - AmountOrZero(row[5])
           ELSE AmountOrZero(row[9]) - AmountOrZero(row[10]),
           AmountOrZero(row[4]) - AmountOrZero(row[5]))

\* C15: to_ir is a one-to-one, order-preserving flattening.  When load
\* returns, the ledger has exactly one transaction per posting row of the
\* document, in the order of the rows; the k-th transaction holds exactly one
\* posting and carries the date and the description of the k-th posting row,
\* the name of the account whose block the row is in, and the amount
\* debit - credit of the row, whatever the type of the account.
C15_Flattening ==
    LoadReturnedOk =>
        /\ Len(transactions) = Cardinality(PostingRowIndexes)
        /\ \A k \in 1..Len(transactions) :
              /\ transactions[k].date = document.rows[NthPostingRow(k)][2].n
              /\ transactions[k].description = CellText(document.rows[NthPostingRow(k)][3])
              /\ Len(transactions[k].postings) = 1
              /\ transactions[k].postings[1].account_name = OwningAccount(NthPostingRow(k))
              /\ transactions[k].postings[1].amount
                    = RowAmount(wave_ledger.column_schema, document.rows[NthPostingRow(k)])

\* load returned the transactions of two accounts, the second one kept by the
\* credit rule, with two different posting rows in one account.
C15_Witness ==
    /\ LoadReturnedOk
    /\ Len(wave_ledger.accounts) = 2
    /\ AccountTypeOf(wave_ledger.accounts[2]) = "Credit"
    /\ Len(wave_ledger.accounts[1].postings) = 2
    /\ wave_ledger.accounts[1].postings[1] # wave_ledger.accounts[1].postings[2]
    /\ Len(transactions) = 4

(***************************************************************************)
(* ir.rs: Transaction::is_balanced, on the output of the reconciler.       *)
(***************************************************************************)
\* Sum for Amount
RECURSIVE SumOfAmounts(_)
SumOfAmounts(postings) ==
    IF postings = <<>> THEN AmountZero
    ELSE AmountAdd(postings[1].amount, SumOfAmounts(Tail(postings)))

\* Transaction::is_balanced
IsBalanced(transaction) == AmountIsZero(SumOfAmounts(transaction.postings))

\* C16 (as stated): every two-posting transaction the reconciler produces is
\* balanced, Transaction::is_balanced is true for it, also when its two
\* postings belong to accounts with different account currencies.
C16_AsStated ==
    Merged =>
        \A i \in 1..Len(transactions) :
            Len(transactions[i].postings) = 2 => IsBalanced(transactions[i])

\* C17: the per-date balance property does not depend on reconciling.  The
\* result of check_transactions_are_balanced_per_date on the merged ledger, and
\* on the merged and sorted ledger, is the result it gives on the ledger as it
\* was before the merge.
C17_CheckIndependentOfMerge ==
    mpc = "checked" =>
        checkResult.res = CheckTransactionsAreBalancedPerDate(input)

\* The check ran on a merged and sorted ledger that differs from the ledger
\* before the merge and holds a two-posting transaction, and it failed on a
\* date.
C17_Witness ==
    /\ mpc = "checked"
    /\ checkResult = [at |-> "sorted", res |-> "Err"]
    /\ transactions # input
    /\ \E i \in 1..Len(transactions) : Len(transactions[i].postings) = 2

(***************************************************************************)
(* Account::validate: the hypothesis each posting matches.                 *)
(***************************************************************************)
\* The balance of posting i is the balance before it + debit - credit.
MatchesDebit(acct, i) ==
    acct.postings[i].balance
        = AmountSub(AmountAdd(PreviousBalance(acct, i), acct.postings[i].debit),
                    acct.postings[i].credit)

\* The balance of posting i is the balance before it - debit + credit.
MatchesCredit(acct, i) ==
    acct.postings[i].balance
        = AmountAdd(AmountSub(PreviousBalance(acct, i), acct.postings[i].debit),
                    acct.postings[i].credit)

\* C20: the inferred account type never flips during the fold.  When validate
\* returns Ok, every posting matches one of the two hypotheses, every posting
\* matches the hypothesis of the type that is returned, and no two postings of
\* the block match a different hypothesis only; a block in which a posting
\* matches, after a posting that matched one hypothesis, only the other one or
\* neither is answered with an error.
C20_TypeNeverFlips ==
    vpc \in {"validated", "revalidated"} =>
        /\ vresult.ok =>
              /\ \A i \in 1..Len(account.postings) :
                    MatchesDebit(account, i) \/ MatchesCredit(account, i)
              /\ vresult.account_type = "Debit" =>
                    \A i \in 1..Len(account.postings) : MatchesDebit(account, i)
              /\ vresult.account_type = "Credit" =>
                    \A i \in 1..Len(account.postings) : MatchesCredit(account, i)
              /\ vresult.account_type = "None" => account.postings = <<>>
              /\ ~\E i, j \in 1..Len(account.postings) :
                    /\ MatchesDebit(account, i) /\ ~MatchesCredit(account, i)
                    /\ MatchesCredit(account, j) /\ ~MatchesDebit(account, j)
        /\ (\E i, j \in 1..Len(account.postings) :
              /\ i < j
              /\ MatchesDebit(account, i) \/ MatchesCredit(account, i)
              /\ \/ ~MatchesDebit(account, j) /\ ~MatchesCredit(account, j)
                 \/ MatchesDebit(account, i) /\ ~MatchesCredit(account, i)
                    /\ ~MatchesDebit(account, j)
                 \/ MatchesCredit(account, i) /\ ~MatchesDebit(account, i)
                    /\ ~MatchesCredit(account, j))
              => ~vresult.ok

\* validate refused a block with true totals whose first posting matches the
\* debit hypothesis only and whose second posting matches the credit
\* hypothesis only.
C20_Witness ==
    /\ vpc = "validated"
    /\ Len(account.postings) = 2
    /\ TrueTotals(account)
    /\ MatchesDebit(account, 1) /\ ~MatchesCredit(account, 1)
    /\ MatchesCredit(account, 2) /\ ~MatchesDebit(account, 2)
    /\ ~vresult.ok
    /\ vresult.err = "Credit account balance mismatch"

\* C21 (as stated): at every posting exactly one of the two candidate balances
\* must equal the reported balance.  A block with a posting for which both
\* candidates match, or neither, is refused by validate, and such a posting
\* never fixes the account type: an accepted block with a type has a posting
\* that matches the hypothesis of that type only.
C21_AsStated ==
    Validated =>
        /\ (\E i \in 1..Len(account.postings) :
               MatchesDebit(account, i) = MatchesCredit(account, i)) => ~vresult.ok
        /\ (vresult.ok /\ vresult.account_type = "Debit") =>
              \E i \in 1..Len(account.postings) :
                 MatchesDebit(account, i) /\ ~MatchesCredit(account, i)
        /\ (vresult.ok /\ vresult.account_type = "Credit") =>
              \E i \in 1..Len(account.postings) :
                 MatchesCredit(account, i) /\ ~MatchesDebit(account, i)

\* The two figures of every amount of the account are the same.
SameFigures(amount) == amount.in_account_currency = amount.in_ledger_currency

FiguresCoincide(acct) ==
    /\ SameFigures(acct.starting_balance)
    /\ \A i \in 1..Len(acct.postings) :
          /\ SameFigures(acct.postings[i].debit)
          /\ SameFigures(acct.postings[i].credit)
          /\ SameFigures(acct.postings[i].balance)
    /\ SameFigures(acct.ending_balance.total_debit)
    /\ SameFigures(acct.ending_balance.total_credit)
    /\ SameFigures(acct.ending_balance.ending_balance)
    /\ SameFigures(acct.balance_change)

\* A row of twelve cells of a USD account with an amount whose account-currency
\* cell and ledger-currency cell hold different figures.
RowFiguresDiffer(row) ==
    /\ Len(row) = 12
    /\ CellText(row[12]) = LEDGER_CURRENCY
    /\ \E c \in 4..6 :
          IsAmountCell(row[c]) /\ IsAmountCell(row[c + 5]) /\ row[c].n # row[c + 5].n

\* C22: in every account the parser accepts whose account currency is the
\* ledger currency (every account of a GlobalLedgerCurrency document), each
\* amount has the same figure in account currency and in ledger currency; a
\* document with account-currency columns in which a row of a USD account
\* holds two different figures for one amount is rejected.
C22_SameCurrencyFigures ==
    lpc # "input" =>
        /\ wave_ledger.ok =>
              \A k \in 1..Len(wave_ledger.accounts) :
                 /\ wave_ledger.column_schema = "GlobalLedgerCurrency"
                       => wave_ledger.accounts[k].account_currency = LEDGER_CURRENCY
                 /\ wave_ledger.accounts[k].account_currency = LEDGER_CURRENCY
                       => FiguresCoincide(wave_ledger.accounts[k])
        /\ (\E i \in 1..Len(document.rows) : RowFiguresDiffer(document.rows[i]))
              => ~wave_ledger.ok

\* A document rejected for nothing but the balances of a USD account, which
\* are consistent in each currency and differ between the two.
C22_Witness ==
    /\ lpc = "failed"
    /\ ~wave_ledger.ok
    /\ document.defect = "figures"
    /\ Len(document.rows) = 6
    /\ CellText(document.rows[2][12]) = LEDGER_CURRENCY
    /\ \A r \in 2..5 : document.rows[r][11].n = document.rows[r][6].n + 1
    /\ \A r \in {3, 4} : document.rows[r][9] = AmountCell(LEDGER_CURRENCY_SYMBOL, 1)
    /\ document.rows[6][9].n = document.rows[6][4].n

\* C23 (as stated): in every posting row of a document with account-currency
\* columns for which load returns a Ledger, the debit cell is non-empty in the
\* account-currency columns exactly when it is non-empty in the
\* ledger-currency columns, and the same for the credit cell.
C23_AsStated ==
    (LoadReturnedOk /\ PerAccountCurrency) =>
       \A i \in 1..Len(document.rows) :
          IsPostingRowOfDocument(document.rows[i]) =>
             /\ IsEmptyCell(document.rows[i][9]) = IsEmptyCell(document.rows[i][4])
             /\ IsEmptyCell(document.rows[i][10]) = IsEmptyCell(document.rows[i][5])

ZeroTotals(acct) ==
    /\ acct.ending_balance.total_debit = AmountZero
    /\ acct.ending_balance.total_credit = AmountZero

\* C24 (as stated): validate accepts every block with no postings, zero totals
\* and zero balance change and returns no type for it; it returns no type for
\* no block with a posting.
C24_AsStated ==
    Validated =>
        /\ (/\ account.postings = <<>>
            /\ ZeroTotals(account)
            /\ account.balance_change = AmountZero)
              => (vresult.ok /\ vresult.account_type = "None")
        /\ (vresult.ok /\ account.postings # <<>>) => vresult.account_type # "None"

\* C24 (amended): validate accepts a block with no postings exactly when its
\* totals and its balance change are zero and its ending balance is its
\* starting balance, and returns no type for it; every block with a posting
\* that validate accepts gets the type Debit or Credit.
C24_TypelessAccounts ==
    Validated =>
        /\ account.postings = <<>> =>
              /\ vresult.ok <=>
                    /\ ZeroTotals(account)
                    /\ account.balance_change = AmountZero
                    /\ account.ending_balance.ending_balance = account.starting_balance
              /\ vresult.ok => vresult.account_type = "None"
        /\ (vresult.ok /\ account.postings # <<>>)
              => vresult.account_type \in {"Debit", "Credit"}

\* A block with no postings and a starting balance that is not zero has been
\* accepted without a type.
C24_Witness ==
    /\ Validated
    /\ account.postings = <<>>
    /\ account.starting_balance # AmountZero
    /\ vresult.ok
    /\ vresult.account_type = "None"

Figures == {"in_account_currency", "in_ledger_currency"}

\* In the figure f, the balance of posting i is the balance before it
\* + debit - credit.
FigureMatchesDebit(acct, i, f) ==
    acct.postings[i].balance[f]
        = PreviousBalance(acct, i)[f] + acct.postings[i].debit[f]
            - acct.postings[i].credit[f]

\* In the figure f, the balance of posting i is the balance before it
\* - debit + credit.
FigureMatchesCredit(acct, i, f) ==
    acct.postings[i].balance[f]
        = PreviousBalance(acct, i)[f] - acct.postings[i].debit[f]
            + acct.postings[i].credit[f]

FigureFollowsDebitRule(acct, f) ==
    \A i \in 1..Len(acct.postings) : FigureMatchesDebit(acct, i, f)

FigureFollowsCreditRule(acct, f) ==
    \A i \in 1..Len(acct.postings) : FigureMatchesCredit(acct, i, f)

\* In the figure f, the totals, the ending balance and the balance change of
\* the block are those of its postings.
FigureTotalsHold(acct, f) ==
    /\ acct.ending_balance.total_debit[f] = SumDebit(acct.postings)[f]
    /\ acct.ending_balance.total_credit[f] = SumCredit(acct.postings)[f]
    /\ acct.ending_balance.ending_balance[f] = LastBalance(acct)[f]
    /\ acct.starting_balance[f] + acct.balance_change[f]
          = acct.ending_balance.ending_balance[f]

\* C29: for an account whose currency is not the ledger currency, validate
\* accepts a block only if every posting matches one hypothesis in both
\* figures, the hypothesis of the returned type, and the totals, the ending
\* balance and the balance change hold in each figure; a block whose ledger
\* figures follow the debit rule while its account figures follow the credit
\* rule and not the debit rule, or follow neither rule, is rejected (the ledger
\* figures following the debit rule only).
C29_SameHypothesisInBothCurrencies ==
    (Validated /\ account.account_currency # LEDGER_CURRENCY) =>
        /\ vresult.ok =>
              /\ \A i \in 1..Len(account.postings) :
                    \/ \A f \in Figures : FigureMatchesDebit(account, i, f)
                    \/ \A f \in Figures : FigureMatchesCredit(account, i, f)
              /\ vresult.account_type = "Debit" =>
                    \A f \in Figures : FigureFollowsDebitRule(account, f)
              /\ vresult.account_type = "Credit" =>
                    \A f \in Figures : FigureFollowsCreditRule(account, f)
              /\ \A f \in Figures : FigureTotalsHold(account, f)
        /\ (/\ FigureFollowsDebitRule(account, "in_ledger_currency")
            /\ ~FigureFollowsCreditRule(account, "in_ledger_currency")
            /\ ~FigureFollowsDebitRule(account, "in_account_currency"))
              => ~vresult.ok
        /\ (\E f \in Figures : ~FigureTotalsHold(account, f)) => ~vresult.ok

\* A EUR block with a true ending row has been rejected: its ledger figures
\* follow the debit rule and its account figures the credit rule only.
C29_Witness ==
    /\ Validated
    /\ account.account_currency = "EUR"
    /\ account.postings # <<>>
    /\ ~vresult.ok
    /\ TrueTotals(account)
    /\ FigureFollowsDebitRule(account, "in_ledger_currency")
    /\ FigureFollowsCreditRule(account, "in_account_currency")
    /\ ~FigureFollowsDebitRule(account, "in_account_currency")
    /\ ~FigureFollowsCreditRule(account, "in_ledger_currency")

\* (date, description, account_name, amount) of the posting at a position.
PostingTuple(txs, pos) ==
    <<txs[pos[1]].date, txs[pos[1]].description,
      PostingAt(txs, pos).account_name, PostingAt(txs, pos).amount>>

PostingTuples(txs) == {PostingTuple(txs, pos) : pos \in Positions(txs)}

\* How many postings of the ledger have the tuple t.
TupleCount(txs, t) == Cardinality({pos \in Positions(txs) : PostingTuple(txs, pos) = t})

\* C25: the reconciler neither loses nor invents postings.  The postings of
\* the merged ledger, as (date, description, account_name, amount), are those
\* of the ledger before the merge, each as many times; every transaction of
\* the merged ledger has one or two postings; the two postings of a merged
\* transaction are the postings of two transactions of the input with the
\* date and the description of the merged transaction.
C25_PostingsPreserved ==
    mpc = "merged" =>
        /\ \A t \in PostingTuples(input) \cup PostingTuples(transactions) :
              TupleCount(transactions, t) = TupleCount(input, t)
        /\ \A i \in 1..Len(transactions) :
              /\ Len(transactions[i].postings) \in {1, 2}
              /\ Len(transactions[i].postings) = 2 =>
                    \E a, b \in 1..Len(input) :
                       /\ a # b
                       /\ input[a].date = transactions[i].date
                       /\ input[b].date = transactions[i].date
                       /\ input[a].description = transactions[i].description
                       /\ input[b].description = transactions[i].description
                       /\ input[a].postings = <<transactions[i].postings[1]>>
                       /\ input[b].postings = <<transactions[i].postings[2]>>

\* Three transactions went in; a merged transaction and a single one came out.
C25_Witness ==
    /\ mpc = "merged"
    /\ Len(input) = 3
    /\ Len(transactions) = 2
    /\ \E i, j \in 1..Len(transactions) :
          Len(transactions[i].postings) = 2 /\ Len(transactions[j].postings) = 1

\* The postings of a transaction without their order: how often each occurs.
PostingBag(postings) ==
    [p \in {postings[i] : i \in 1..Len(postings)} |->
        Cardinality({i \in 1..Len(postings) : postings[i] = p})]

\* A transaction as (date, description, unordered postings).
Unordered(transaction) ==
    [date |-> transaction.date, description |-> transaction.description,
     postings |-> PostingBag(transaction.postings)]

UnorderedCount(txs, u) == Cardinality({i \in 1..Len(txs) : Unordered(txs[i]) = u})

\* The two lists hold the same transactions, each as many times, when the
\* order of the list and the order of the postings of a transaction are ignored.
SameTransactionsUnordered(txs1, txs2) ==
    \A u \in {Unordered(txs1[i]) : i \in 1..Len(txs1)}
             \cup {Unordered(txs2[i]) : i \in 1..Len(txs2)} :
       UnorderedCount(txs1, u) = UnorderedCount(txs2, u)

\* One of the orders in which the buckets of a group can be visited.
SomeOrder(postings) == CHOOSE order \in IterationOrders(BucketKeys(postings)) : TRUE

\* The transactions of the ledger with the date and the description of `key`.
TransactionsWithKey(txs, key) ==
    SelectSeq(txs, LAMBDA tx : tx.date = key[1] /\ tx.description = key[2])

\* C28: the result of the reconciler does not depend on the order in which the
\* HashMaps are visited.  Whatever order the groups and the buckets were
\* visited in, the merged ledger holds, for every (date, description) of the
\* input, the transactions that one fixed order of the buckets gives, up to
\* the order of the transactions and of the two postings of a merged
\* transaction, and no transaction of another (date, description).
C28_OrderIndependent ==
    mpc = "merged" =>
        \A grouped \in {GroupBy(input, "date_description")} :
           /\ \A key \in DOMAIN grouped :
                 SameTransactionsUnordered(
                    TransactionsWithKey(transactions, key),
                    TransactionsFromPostings(key[1], key[2], grouped[key],
                                             SomeOrder(grouped[key])))
           /\ \A i \in 1..Len(transactions) :
                 <<transactions[i].date, transactions[i].description>>
                    \in DOMAIN grouped

\* A group of three buckets was merged, and the buckets were visited in an
\* order that is not the fixed one: the merged transaction has its postings in
\* the other order.
C28_Witness ==
    /\ mpc = "merged"
    /\ Len(input) = 3
    /\ \E key \in DOMAIN GroupBy(input, "date_description") :
          /\ Cardinality(BucketKeys(GroupBy(input, "date_description")[key])) = 3
          /\ \E i \in 1..Len(transactions) :
                /\ Len(transactions[i].postings) = 2
                /\ \A j \in 1..Len(TransactionsFromPostings(key[1], key[2],
                                      GroupBy(input, "date_description")[key],
                                      SomeOrder(GroupBy(input, "date_description")[key]))) :
                      TransactionsFromPostings(key[1], key[2],
                         GroupBy(input, "date_description")[key],
                         SomeOrder(GroupBy(input, "date_description")[key]))[j]
                         # transactions[i]

\* The one-to-one maps of the positions 1..n.
PositionMaps(n) == {f \in [1..n -> 1..n] : \A i, j \in 1..n : f[i] = f[j] => i = j}

\* `after` holds the transactions of `before`, each as many times, in
\* non-decreasing order of date, and transactions of one date in the order
\* they have in `before`.
IsStableSortOf(after, before) ==
    /\ Len(after) = Len(before)
    /\ \A i, j \in 1..Len(after) : i < j => after[i].date <= after[j].date
    /\ \E f \in PositionMaps(Len(before)) :
          /\ \A i \in 1..Len(before) : after[f[i]] = before[i]
          /\ \A i, j \in 1..Len(before) :
                (i < j /\ before[i].date = before[j].date) => f[i] < f[j]

\* A step of the reconciler or of the sort.
MergeOrSortStep ==
    /\ mpc \in {"loaded", "merging", "merged"}
    /\ mpc' \in {"merging", "merged", "sorted"}

\* C30: the reconciler and the sort change nothing of the ledger but its
\* transactions: ledger_name, dates and account_balances stay as they are;
\* the sort returns the transactions it was given, each as many times, in
\* non-decreasing order of date, those of one date in the order they had.
C30_OnlyTransactionsChange ==
    [][MergeOrSortStep =>
          /\ ledger_name' = ledger_name
          /\ dates' = dates
          /\ account_balances' = account_balances
          /\ (mpc = "merged" /\ mpc' = "sorted")
                => IsStableSortOf(transactions', transactions)]_vars

\* A ledger with account balances was merged and sorted; the sort moved a
\* transaction and kept two different transactions of one date in their order.
C30_Witness ==
    /\ mpc = "sorted"
    /\ ledger_name = "Business"
    /\ account_balances # <<>>
    /\ transactions # result
    /\ \E i \in 1..Len(transactions) : \E j \in (i + 1)..Len(transactions) :
          /\ transactions[i].date = transactions[j].date
          /\ transactions[i] # transactions[j]

\* The sum of the amounts of the postings of the account `name` in the
\* transactions to_ir returned: one posting per transaction.
RECURSIVE IrAmountSum(_, _)
IrAmountSum(txs, name) ==
    IF txs = <<>> THEN AmountZero
    ELSE AmountAdd(IF txs[1].postings[1].account_name = name
                   THEN txs[1].postings[1].amount ELSE AmountZero,
                   IrAmountSum(Tail(txs), name))

\* end_balance - start_balance of the account is the sum of its postings.
BalancesMatchPostings(name) ==
    AmountSub(account_balances[name].end_balance, account_balances[name].start_balance)
       = IrAmountSum(input, name)

\* C26 (as stated): for every account of a Ledger that load returns, the end
\* balance minus the start balance of the account in account_balances is the
\* sum of the amounts of the postings of the account in the transactions.
C26_AsStated ==
    (lpc = "loaded" /\ mpc = "loaded") =>
        \A name \in DOMAIN account_balances : BalancesMatchPostings(name)

\* to_ir has run on the WaveLedger the parser returned.
ToIrReturned == wave_ledger.ok /\ lpc \in {"failed", "loaded"}

\* No account after the k-th has the name of the k-th.
LastOfItsName(accounts, k) ==
    \A j \in (k + 1)..Len(accounts) : accounts[j].name # accounts[k].name

\* C27: an account block without postings that the parser accepted has no
\* type.  If its starting or its ending balance is not zero, to_ir, and so
\* load, fails because the account type could not be determined; such an
\* account is in a Ledger that load returns only with both balances zero, and
\* its start and end balance in account_balances are zero.
C27_TypelessBalances ==
    ToIrReturned =>
        \A k \in 1..Len(wave_ledger.accounts) :
           wave_ledger.accounts[k].postings = <<>> =>
              /\ Validate(wave_ledger.accounts[k]).ok
              /\ AccountTypeOf(wave_ledger.accounts[k]) = "None"
              /\ (\/ ~AmountIsZero(wave_ledger.accounts[k].starting_balance)
                  \/ ~AmountIsZero(wave_ledger.accounts[k].ending_balance.ending_balance))
                    => /\ lpc = "failed"
                       /\ ToIrOf(wave_ledger).err = "Couldn't determine account type"
              /\ (lpc = "loaded" /\ LastOfItsName(wave_ledger.accounts, k))
                    => account_balances[wave_ledger.accounts[k].name]
                          = [start_balance |-> AmountZero, end_balance |-> AmountZero]

\* The parser accepted a block without postings whose starting balance is not
\* zero, among blocks whose postings to_ir accepts, and to_ir failed.
C27_Witness ==
    /\ lpc = "failed"
    /\ wave_ledger.ok
    /\ \E k \in 1..Len(wave_ledger.accounts) :
          /\ wave_ledger.accounts[k].postings = <<>>
          /\ ~AmountIsZero(wave_ledger.accounts[k].starting_balance)
    /\ \A k \in 1..Len(wave_ledger.accounts) :
          \A j \in 1..Len(wave_ledger.accounts[k].postings) :
             PostingAmount(wave_ledger.accounts[k].postings[j]).ok
====
